---- MODULE Spec2Model ----
(***************************************************************************)
(* Device-control layer of PNPPK: the modbus_operation guard, the retrying *)
(* connection establishment of GFRController and RelayController, and the  *)
(* controllers' public operations (core/utils/modbus_utils.py,             *)
(* core/gas_flow_regulator/controller.py, core/relay/controller.py).       *)
(*                                                                         *)
(* Messages are sequences of string tokens: an f-string is the             *)
(* concatenation of its pieces, the empty string is << >>.  Russian texts  *)
(* are written by their English meaning.                                   *)
(***************************************************************************)
EXTENDS Integers, Sequences, FiniteSets, TLC

VARIABLES handle, slave_id, tr, LAST_ERROR, regs, last, prev, th, loop, stderr, split, both

vars == <<handle, slave_id, tr, LAST_ERROR, regs, last, prev, th, loop, stderr, split, both>>

(* ------------------------------ bounds --------------------------------- *)

\* transport objects that may be constructed in one behaviour
MaxTransports == 2
\* close() calls followed on one transport object
MaxCloses == 2
\* passes of the connect loop followed in one TurnOn call
MaxAttempts == 4

(* ----------------------------- constants ------------------------------- *)

MODBUS_OK == 0
MODBUS_ERROR == -1
ConnectAttemptsOffByOne == 3 + 1
connect_attempts == 3
DEFAULT_SLAVE_ID == 1
MODBUS_REGISTER_SETPOINT_HIGH == 2053
MODBUS_REGISTER_SETPOINT_LOW == 2054
MODBUS_REGISTER_FLOW == 2103
MODBUS_REGISTER_GAS == 2100
MODBUS_REGISTER_TURN_ON_OFF == 512

\* the two controller objects
Ctl == {"gfr", "relay"}
\* the guarded test object of tests/test_modbus_utils.py
Obj == Ctl \cup {"obj"}

\* Python None in a device attribute; Missing: the attribute does not exist
None == 0
Missing == -1
\* the device object attached to the test object
TestDev == MaxTransports + 1
TrIds == 1..(MaxTransports + 1)

\* the streams sys.stderr refers to: the one the process started with and
\* the io.StringIO() of _init
Console == "console"
ErrorBuffer == "error_buffer"

(* ---------------------------- Python values ---------------------------- *)

PyNone == [t |-> "none", a |-> 0, b |-> 0, s |-> << >>]
PyInt(n) == [t |-> "int", a |-> n, b |-> 0, s |-> << >>]
PyBool(p) == [t |-> "bool", a |-> IF p THEN 1 ELSE 0, b |-> 0, s |-> << >>]
PyStr(m) == [t |-> "str", a |-> 0, b |-> 0, s |-> m]
\* a 2-tuple (x, y) of numbers
PyPair(x, y) == [t |-> "pair", a |-> x, b |-> y, s |-> << >>]

PyEqFirstOfTuple(x, y) == x = y \/ (x.t = "pair" /\ y.t = "int" /\ x.a = y.a)

\* Python ==: a tuple or None never equals an int
PyEq(x, y) == x = y

Return(v) == [kind |-> "return", val |-> v, type |-> "", text |-> << >>]
Raise(ty, txt) == [kind |-> "raise", val |-> PyNone, type |-> ty, text |-> txt]

\* exception classes the transport and the interpreter raise here; all of
\* them derive from Exception
ExceptionTypes == {"Exception", "ValueError", "AttributeError", "ModbusException", "struct.error"}

(* ------------------------------ messages ------------------------------- *)

Contains(msg, tok) == \E i \in DOMAIN msg : msg[i] = tok

OperationName(o, op) ==
    CASE o = "gfr" /\ op = "_close" -> "GFR: closing the connection"
      [] o = "gfr" /\ op = "_set_slave" -> "GFR: set slave"
      [] o = "gfr" /\ op = "TurnOn" -> "GFR: turning on"
      [] o = "gfr" /\ op = "TurnOff" -> "GFR: turning off"
      [] o = "gfr" /\ op = "SetFlow" -> "GFR: set flow (registers 2053 and 2054)"
      [] o = "gfr" /\ op = "GetFlow" -> "GFR: get flow (register 2103)"
      [] o = "gfr" /\ op = "SetGas" -> "GFR: set gas (register 2100)"
      [] o = "relay" /\ op = "_close" -> "RELAY: closing the connection"
      [] o = "relay" /\ op = "_set_slave" -> "RELAY: set slave"
      [] o = "relay" /\ op = "TurnOn" -> "RELAY: turning on"
      [] o = "relay" /\ op = "TurnOff" -> "RELAY: turning off"
      [] OTHER -> "Test Operation"

\* f"{operation_name} failed: device not initialized (...)"
NotInitializedMessage(name) == <<name, "failed:", "device not initialized">>

FailedMessageWithoutName(name, text) == <<"failed:">> \o text

\* f"{operation_name} failed: {str(inner_e)}"
FailedMessage(name, text) == <<name, "failed:">> \o text

(* --------------------------- machine state ----------------------------- *)

\* The part of the process a call reads and writes: the device attributes,
\* the slave ids, the transport objects, the module-level LAST_ERROR, the
\* setpoint registers of the flow regulator behind the transports, and
\* what the call did: the transport calls it issued (calls), the wrapped
\* functions it entered (invoked), the wrapped functions that raised, with
\* the exception text (raised), and the sleeps of the retry loop (sleeps).
\* stderr is the stream sys.stderr refers to, old_stderr the stream _init
\* saved at its entry.
State(h, sl, t, e, g, se) ==
    [handle |-> h, slave_id |-> sl, tr |-> t, err |-> e, regs |-> g,
     calls |-> << >>, invoked |-> {}, raised |-> {}, sleeps |-> 0,
     stderr |-> se, old_stderr |-> se]

\* one entry of calls: transport object, method, register, value, slave
Call(tid, m, reg, val, sl) == <<tid, m, reg, val, sl>>

Issue(s, c) == [s EXCEPT !.calls = Append(@, c)]

CallsOf(calls, m) == {i \in DOMAIN calls : calls[i][2] = m}

\* set_last_error / reset_last_error
set_last_error(s, msg) == [s EXCEPT !.err = msg]
reset_last_error_keeps(s) == s
reset_last_error(s) == [s EXCEPT !.err = << >>]
get_last_error_empty(s) == << >>
get_last_error(s) == s.err

set_last_error_unchecked(s, error) ==
    [s |-> set_last_error(s, error.s), out |-> Return(PyNone)]

\* set_last_error(error) for any Python value: a value that is not a str
\* raises ValueError before LAST_ERROR is assigned
set_last_error_of(s, error) ==
    IF error.t # "str"
    THEN [s |-> s, out |-> Raise("ValueError", <<"Error must be a string">>)]
    ELSE [s |-> set_last_error(s, error.s), out |-> Return(PyNone)]

\* getattr(self, attr_name, None)
GetAttr(s, o) == IF s.handle[o] = Missing THEN None ELSE s.handle[o]

SetAttrOfEveryObject(s, o, v) == [s EXCEPT !.handle = [p \in DOMAIN @ |-> v]]

\* setattr(self, attr_name, value)
SetAttr(s, o, v) == [s EXCEPT !.handle[o] = v]

(* ----------------------------- transport ------------------------------- *)

\* device.close(): the call is issued; the object is closed unless close
\* raised.  On None it is an AttributeError and nothing is issued.
DeviceClose(s, dev, raises) ==
    IF dev = None
    THEN [s |-> s, out |-> Raise("AttributeError", <<"NoneType has no attribute close">>)]
    ELSE LET s1 == Issue(s, Call(dev, "close", 0, 0, 0))
             s2 == [s1 EXCEPT !.tr[dev].closes = @ + 1,
                              !.tr[dev].st = IF raises THEN @ ELSE "closed"]
         IN IF raises
            THEN [s |-> s2, out |-> Raise("ModbusException", <<"close failed">>)]
            ELSE [s |-> s2, out |-> Return(PyNone)]

\* a 16-bit holding register takes 0..65535; the request encoder raises
\* struct.error on anything else
ValidRegisterValue(v) == v >= 0 /\ v <= 65535

\* device.write_register(reg, val, slave=sl)
WriteRegister(s, dev, reg, val, sl, raises) ==
    IF dev = None
    THEN [s |-> s, out |-> Raise("AttributeError", <<"NoneType has no attribute write_register">>)]
    ELSE LET s1 == Issue(s, Call(dev, "write", reg, val, sl))
         IN IF ~ValidRegisterValue(val)
            THEN [s |-> s1, out |-> Raise("struct.error", <<"value out of range">>)]
            ELSE IF raises
            THEN [s |-> s1, out |-> Raise("ModbusException", <<"write failed">>)]
            ELSE [s |-> s1, out |-> Return(PyNone)]

\* The flow regulator keeps the word a write_register that returned put in
\* a setpoint register; regs names, for each of the two registers, the
\* scaled setpoint value whose word it holds.  A write that raised left the
\* register as it was.
Stored(s, word, value) == [s EXCEPT !.regs[word] = value]

(* ------------------------------ the guard ------------------------------ *)

\* the decorator's arguments
Config(name, cleanup, onSuccess, onError, skip, preserve) ==
    [operation_name |-> name, cleanup_on_error |-> cleanup,
     return_on_success |-> onSuccess, return_on_error |-> onError,
     skip_device_check |-> skip, preserve_return_value |-> preserve]

DefaultConfig(name) == Config(name, TRUE, MODBUS_OK, MODBUS_ERROR, FALSE, FALSE)

OnlyModbusException(ty) == ty = "ModbusException"

\* "except Exception": the handler takes every exception class raised here
IsException(ty) == ty \in ExceptionTypes

CleanupResetInsideTry(s, o, device, closeRaises) ==
    LET c == IF s.tr[device].hasClose
             THEN DeviceClose(s, device, closeRaises)
             ELSE [s |-> s, out |-> Return(PyNone)]
    IN IF c.out.kind = "raise"
       THEN [s |-> c.s, out |-> Return(PyNone)]
       ELSE [s |-> SetAttr(c.s, o, None), out |-> Return(PyNone)]

\* the cleanup of the handler: close the device captured at entry if it has
\* a close method, ignore what close raises, then null the attribute
Cleanup(s, o, device, closeRaises) ==
    LET c == IF s.tr[device].hasClose
             THEN DeviceClose(s, device, closeRaises)
             ELSE [s |-> s, out |-> Return(PyNone)]
    IN IF c.out.kind = "raise" /\ ~IsException(c.out.type)
       THEN [s |-> c.s, out |-> c.out]
       ELSE [s |-> SetAttr(c.s, o, None), out |-> Return(PyNone)]

OnExceptionKeepsDevice(cfg, o, device, s, exc, closeRaises) ==
    LET s0 == [s EXCEPT !.raised = @ \cup {<<cfg.operation_name, exc.text>>}]
    IN [s |-> set_last_error(s0, FailedMessage(cfg.operation_name, exc.text)),
        out |-> Return(PyInt(cfg.return_on_error))]

\* the handler of the wrapped function's exception
OnException(cfg, o, device, s, exc, closeRaises) ==
    LET s0 == [s EXCEPT !.raised = @ \cup {<<cfg.operation_name, exc.text>>}]
        s1 == set_last_error(s0, FailedMessage(cfg.operation_name, exc.text))
        c == IF cfg.cleanup_on_error /\ device # None
             THEN Cleanup(s1, o, device, closeRaises)
             ELSE [s |-> s1, out |-> Return(PyNone)]
    IN IF c.out.kind = "raise"
       THEN c
       ELSE [s |-> c.s, out |-> Return(PyInt(cfg.return_on_error))]

OnResultKeepsError(cfg, s, result) ==
    IF PyEq(result, PyInt(MODBUS_ERROR))
    THEN [s |-> set_last_error(s, get_last_error(s)),
          out |-> Return(PyInt(cfg.return_on_error))]
    ELSE IF cfg.preserve_return_value
    THEN [s |-> s, out |-> Return(result)]
    ELSE [s |-> s, out |-> Return(PyInt(cfg.return_on_success))]

\* what wrapper does with the wrapped function's normal result
OnResult(cfg, s, result) ==
    IF PyEq(result, PyInt(MODBUS_ERROR))
    THEN [s |-> set_last_error(s, get_last_error(s)),
          out |-> Return(PyInt(cfg.return_on_error))]
    ELSE IF cfg.preserve_return_value
    THEN [s |-> s, out |-> Return(result)]
    ELSE [s |-> reset_last_error(s), out |-> Return(PyInt(cfg.return_on_success))]

DeviceCheckSkipInverted(cfg, device) == cfg.skip_device_check /\ device = None

\* if not skip_device_check and device is None
DeviceCheckFails(cfg, device) == ~cfg.skip_device_check /\ device = None

\* the state in which the wrapped function starts
Entered(cfg, s) == [s EXCEPT !.invoked = @ \cup {cfg.operation_name}]

\* modbus_operation(...)(func)(self), where r is what func(self) does when
\* started in Entered(cfg, s); device is read once, at entry
Wrapper(cfg, o, s, r, closeRaises) ==
    LET device == GetAttr(s, o)
    IN IF DeviceCheckFails(cfg, device)
       THEN [s |-> set_last_error(s, NotInitializedMessage(cfg.operation_name)),
             out |-> Return(PyInt(cfg.return_on_error))]
       ELSE IF r.out.kind = "raise"
       THEN IF IsException(r.out.type)
            THEN OnException(cfg, o, device, r.s, r.out, closeRaises)
            ELSE r
       ELSE OnResult(cfg, r.s, r.out.val)

(* ----------------------- connection establishment ---------------------- *)

\* what one connect() call of a transport does
ConnectOutcomes == {"ok", "false", "stderr", "raise"}

\* the transport's behaviour on its successive connect() calls; past the end
\* of the script connect() returns False
ScriptLen == connect_attempts
Scripts == {sc \in [1..ScriptLen -> ConnectOutcomes] :
               \A i \in 1..ScriptLen, j \in 1..ScriptLen : i < j /\ sc[i] = "ok" => sc[j] = "ok"}
ConnectOutcome(script, i) == IF i \in DOMAIN script THEN script[i] ELSE "false"

\* str(e) of the exception raised by the i-th connect(), and the text the
\* i-th connect() printed on stderr
ExceptionText(i) == "E" \o ToString(i)
StderrText(i) == "S" \o ToString(i)

DeviceTitle(o) == IF o = "gfr" THEN "GFR" ELSE "relay"

\* f"failed to connect to <device>: {e}" of the constructor's handler
ConstructFailedText(o) == <<"failed to connect to", DeviceTitle(o), ":", "constructor failed">>

\* error_message of _init after the loop.  The relay appends the original
\* message when it has one; the flow regulator does not.
ExhaustedText(o, original_error_message) ==
    LET base == <<"failed to connect to", DeviceTitle(o), "after",
                  ToString(connect_attempts), "attempts">>
    IN IF o = "relay" /\ original_error_message # ""
       THEN base \o <<"original MODBUS error message:", original_error_message,
                      "check the wires or reinstall the driver">>
       ELSE base

\* ModbusSerialClient(...): the first transport object not yet constructed
NewTransport(s) == CHOOSE i \in 1..MaxTransports :
                      /\ s.tr[i].st = "free"
                      /\ \A j \in 1..MaxTransports : s.tr[j].st = "free" => i <= j

set_slave_func_forgets(o, s, id) == [s |-> s, out |-> Return(PyNone)]

\* the body of _set_slave
set_slave_func(o, s, id) == [s |-> [s EXCEPT !.slave_id[o] = id], out |-> Return(PyNone)]

SetSlaveConfig(o) ==
    Config(OperationName(o, "_set_slave"), TRUE, MODBUS_OK, MODBUS_ERROR, TRUE, FALSE)

\* @modbus_operation("... set slave", skip_device_check=True) _set_slave
set_slave(o, s, id) ==
    Wrapper(SetSlaveConfig(o), o, s, set_slave_func(o, Entered(SetSlaveConfig(o), s), id), FALSE)

LoopNeverExhausted(attempt) == FALSE

\* range(connect_attempts) has no further attempt to give; attempt counts
\* from 1 here
LoopExhausted(attempt) == attempt > connect_attempts

ConnectAttemptKeepsBuffer(o, s, res, attempt, original_error_message) ==
    LET dev == s.handle[o]
        s1 == Issue([s EXCEPT !.stderr = ErrorBuffer], Call(dev, "connect", 0, 0, 0))
    IN IF res = "ok"
       THEN [s |-> [s1 EXCEPT !.tr[dev].st = "open"], connected |-> TRUE,
             message |-> original_error_message]
       ELSE LET m1 == IF res = "raise" THEN ExceptionText(attempt)
                                        ELSE original_error_message
                stderr_output == IF res = "stderr" THEN StderrText(attempt) ELSE ""
                m2 == IF stderr_output # "" /\ m1 = "" THEN stderr_output ELSE m1
            IN [s |-> [s1 EXCEPT !.sleeps = @ + 1], connected |-> FALSE, message |-> m2]

\* one pass of the body of the loop, the connect() call doing res: either
\* _init returns (connected), or the pass ends in sleep(0.5) with the
\* message it leaves in original_error_message; sys.stderr is the buffer
\* during connect() and is put back before _init returns
ConnectAttempt(o, s, res, attempt, original_error_message) ==
    LET dev == s.handle[o]
        s1 == Issue([s EXCEPT !.stderr = ErrorBuffer], Call(dev, "connect", 0, 0, 0))
    IN IF res = "ok"
       THEN [s |-> [s1 EXCEPT !.tr[dev].st = "open", !.stderr = s.old_stderr],
             connected |-> TRUE, message |-> original_error_message]
       ELSE LET m1 == IF res = "raise" THEN ExceptionText(attempt)
                                        ELSE original_error_message
                stderr_output == IF res = "stderr" THEN StderrText(attempt) ELSE ""
                m2 == IF stderr_output # "" /\ m1 = "" THEN stderr_output ELSE m1
            IN [s |-> [s1 EXCEPT !.sleeps = @ + 1], connected |-> FALSE, message |-> m2]

\* after the loop: sys.stderr = old_stderr, raise Exception(error_message)
LoopExit(o, s, original_error_message) ==
    [s |-> [s EXCEPT !.stderr = s.old_stderr],
     out |-> Raise("Exception", ExhaustedText(o, original_error_message))]

\* for attempt in range(connect_attempts): ... and the raise after it
RECURSIVE ConnectLoop(_, _, _, _, _)
ConnectLoop(o, s, script, attempt, original_error_message) ==
    IF LoopExhausted(attempt)
    THEN LoopExit(o, s, original_error_message)
    ELSE LET a == ConnectAttempt(o, s, ConnectOutcome(script, attempt), attempt,
                                 original_error_message)
         IN IF a.connected
            THEN [s |-> a.s, out |-> Return(PyNone)]
            ELSE ConnectLoop(o, a.s, script, attempt + 1, a.message)

\* _init up to the loop: old_stderr = sys.stderr, the transport object is
\* constructed and stored, then _set_slave(slave_id)
Construct(o, s, id) ==
    LET dev == NewTransport(s)
        s0 == [s EXCEPT !.old_stderr = s.stderr]
        s1 == SetAttr([s0 EXCEPT !.tr[dev] = [st |-> "new", closes |-> 0, hasClose |-> TRUE]],
                      o, dev)
    IN set_slave(o, s1, id)

\* GFRController._init / RelayController._init
init(o, s, ctorRaises, script, id) ==
    IF ctorRaises
    THEN [s |-> s, out |-> Raise("Exception", ConstructFailedText(o))]
    ELSE LET s2 == Construct(o, s, id)
         IN IF s2.out.kind = "raise"
            THEN s2
            ELSE ConnectLoop(o, s2.s, script, 1, "")

(* ------------------------------- codec --------------------------------- *)

\* A setpoint is a decimal with four places, held as the integer sp with
\* setpoint = sp / 10000.  (int)(setpoint * 1000) truncates toward zero.
Scaled(sp) == IF sp >= 0 THEN sp \div 10 ELSE -((-sp) \div 10)

RegHighShiftsByEight(value) == value \div 256

\* value >> 16 (arithmetic shift) and value & 0xFFFF
RegHigh(value) == value \div 65536

RegLowFifteenBits(value) == value % 32768

\* value & 0xFFFF
RegLow(value) == value % 65536

Signed16AboveHalf(value) == IF value > 32768 THEN value - 65536 ELSE value

\* unpack(">h", pack(">H", value))[0]
Signed16(value) == IF value >= 32768 THEN value - 65536 ELSE value

\* signed_value / 10.0, held in tenths
Flow(value) == Signed16(value)

(* ------------------------ the guards' arguments ------------------------ *)

CloseConfig(o) == DefaultConfig(OperationName(o, "_close"))
TurnOnConfig(o) == Config(OperationName(o, "TurnOn"), TRUE, MODBUS_OK, MODBUS_ERROR, TRUE, FALSE)
TurnOffConfig(o) == DefaultConfig(OperationName(o, "TurnOff"))
SetFlowConfig == DefaultConfig(OperationName("gfr", "SetFlow"))
GetFlowConfig == Config(OperationName("gfr", "GetFlow"), TRUE, MODBUS_OK, MODBUS_ERROR, FALSE, TRUE)
SetGasConfig == DefaultConfig(OperationName("gfr", "SetGas"))

(* ------------------------ flow regulator methods ----------------------- *)

\* the body of GFRController._close
gfr_close_func(s, closeRaises) ==
    LET c == DeviceClose(s, s.handle["gfr"], closeRaises)
    IN IF c.out.kind = "raise" THEN c
       ELSE [s |-> SetAttr(c.s, "gfr", None), out |-> Return(PyNone)]

\* GFRController._close
gfr_close(s, closeRaises, cleanupRaises) ==
    Wrapper(CloseConfig("gfr"), "gfr", s,
            gfr_close_func(Entered(CloseConfig("gfr"), s), closeRaises), cleanupRaises)

\* the body of GFRController.TurnOn
gfr_TurnOn_func(s, ctorRaises, script, id) ==
    LET r == init("gfr", s, ctorRaises, script, id)
    IN IF r.out.kind = "raise" THEN r ELSE [s |-> r.s, out |-> Return(PyNone)]

\* GFRController.TurnOn
gfr_TurnOn(s, ctorRaises, script, id, cleanupRaises) ==
    Wrapper(TurnOnConfig("gfr"), "gfr", s,
            gfr_TurnOn_func(Entered(TurnOnConfig("gfr"), s), ctorRaises, script, id),
            cleanupRaises)

\* the body of GFRController.TurnOff: the result of _close is dropped
gfr_TurnOff_func(s, closeRaises, cleanupRaises) ==
    LET c == gfr_close(s, closeRaises, cleanupRaises)
    IN IF c.out.kind = "raise" THEN c ELSE [s |-> c.s, out |-> Return(PyNone)]

\* GFRController.TurnOff
gfr_TurnOff(s, closeRaises, cleanupRaises) ==
    Wrapper(TurnOffConfig("gfr"), "gfr", s,
            gfr_TurnOff_func(Entered(TurnOffConfig("gfr"), s), closeRaises, cleanupRaises),
            cleanupRaises)

\* the body of GFRController.SetFlow
gfr_SetFlow_func(s, sp, highRaises, lowRaises) ==
    LET value == Scaled(sp)
        w1 == WriteRegister(s, s.handle["gfr"], MODBUS_REGISTER_SETPOINT_HIGH,
                            RegHigh(value), s.slave_id["gfr"], highRaises)
    IN IF w1.out.kind = "raise" THEN w1
       ELSE LET s1 == Stored(w1.s, "high", value)
                w2 == WriteRegister(s1, s1.handle["gfr"], MODBUS_REGISTER_SETPOINT_LOW,
                                    RegLow(value), s1.slave_id["gfr"], lowRaises)
            IN IF w2.out.kind = "raise" THEN w2
               ELSE [s |-> Stored(w2.s, "low", value), out |-> w2.out]

\* GFRController.SetFlow
gfr_SetFlow(s, sp, highRaises, lowRaises, cleanupRaises) ==
    Wrapper(SetFlowConfig, "gfr", s,
            gfr_SetFlow_func(Entered(SetFlowConfig, s), sp, highRaises, lowRaises),
            cleanupRaises)

\* what read_holding_registers does: it raises, or returns a response
\* without a registers attribute, with an empty list, or with one value
ReadOutcomes(raws) == {<<"raise", 0>>, <<"noattr", 0>>, <<"empty", 0>>} \cup
                      {<<"value", r>> : r \in raws}

\* device.read_holding_registers(address=reg, count=1, slave=sl)
ReadHoldingRegisters(s, dev, reg, sl, rd) ==
    IF dev = None
    THEN [s |-> s, out |-> Raise("AttributeError", <<"NoneType has no attribute read_holding_registers">>)]
    ELSE LET s1 == Issue(s, Call(dev, "read", reg, 1, sl))
         IN IF rd[1] = "raise"
            THEN [s |-> s1, out |-> Raise("ModbusException", <<"read failed">>)]
            ELSE [s |-> s1, out |-> Return(PyNone)]

\* the body of GFRController.GetFlow
gfr_GetFlow_func(s, rd) ==
    LET r == ReadHoldingRegisters(s, s.handle["gfr"], MODBUS_REGISTER_FLOW,
                                  s.slave_id["gfr"], rd)
    IN IF r.out.kind = "raise" THEN r
       ELSE IF rd[1] \in {"noattr", "empty"}
       THEN [s |-> r.s, out |-> Return(PyPair(MODBUS_ERROR, 0))]
       ELSE [s |-> r.s, out |-> Return(PyPair(MODBUS_OK, Flow(rd[2])))]

\* GFRController.GetFlow, preserve_return_value=True
gfr_GetFlow(s, rd, cleanupRaises) ==
    Wrapper(GetFlowConfig, "gfr", s, gfr_GetFlow_func(Entered(GetFlowConfig, s), rd),
            cleanupRaises)

gfr_SetGas_func_relay_slave(s, gas_id, writeRaises) ==
    WriteRegister(s, s.handle["gfr"], MODBUS_REGISTER_GAS, gas_id, s.slave_id["relay"],
                  writeRaises)

\* the body of GFRController.SetGas
gfr_SetGas_func(s, gas_id, writeRaises) ==
    WriteRegister(s, s.handle["gfr"], MODBUS_REGISTER_GAS, gas_id, s.slave_id["gfr"],
                  writeRaises)

\* GFRController.SetGas
gfr_SetGas(s, gas_id, writeRaises, cleanupRaises) ==
    Wrapper(SetGasConfig, "gfr", s, gfr_SetGas_func(Entered(SetGasConfig, s), gas_id, writeRaises),
            cleanupRaises)

(* ---------------------------- relay methods ---------------------------- *)

relay_TurnOn_func_writes_anyway(s, ctorRaises, script, id, writeRaises) ==
    LET r == init("relay", s, ctorRaises, script, id)
        w == WriteRegister(r.s, r.s.handle["relay"], MODBUS_REGISTER_TURN_ON_OFF, 1,
                           r.s.slave_id["relay"], writeRaises)
    IN IF r.out.kind = "raise" THEN [s |-> w.s, out |-> r.out] ELSE w

\* the body of RelayController.TurnOn: _init, then write 1 to the on/off
\* register
relay_TurnOn_func(s, ctorRaises, script, id, writeRaises) ==
    LET r == init("relay", s, ctorRaises, script, id)
    IN IF r.out.kind = "raise" THEN r
       ELSE WriteRegister(r.s, r.s.handle["relay"], MODBUS_REGISTER_TURN_ON_OFF, 1,
                          r.s.slave_id["relay"], writeRaises)

\* RelayController.TurnOn
relay_TurnOn(s, ctorRaises, script, id, writeRaises, cleanupRaises) ==
    Wrapper(TurnOnConfig("relay"), "relay", s,
            relay_TurnOn_func(Entered(TurnOnConfig("relay"), s), ctorRaises, script, id,
                              writeRaises),
            cleanupRaises)

relay_TurnOff_func_closes_first(s, writeRaises, closeRaises) ==
    LET c == DeviceClose(s, s.handle["relay"], closeRaises)
    IN IF c.out.kind = "raise" THEN c
       ELSE WriteRegister(c.s, c.s.handle["relay"], MODBUS_REGISTER_TURN_ON_OFF, 0,
                          c.s.slave_id["relay"], writeRaises)

\* the body of RelayController.TurnOff: write 0, then close; the attribute
\* is not reset
relay_TurnOff_func(s, writeRaises, closeRaises) ==
    LET w == WriteRegister(s, s.handle["relay"], MODBUS_REGISTER_TURN_ON_OFF, 0,
                           s.slave_id["relay"], writeRaises)
    IN IF w.out.kind = "raise" THEN w
       ELSE DeviceClose(w.s, w.s.handle["relay"], closeRaises)

\* RelayController.TurnOff
relay_TurnOff(s, writeRaises, closeRaises, cleanupRaises) ==
    Wrapper(TurnOffConfig("relay"), "relay", s,
            relay_TurnOff_func(Entered(TurnOffConfig("relay"), s), writeRaises, closeRaises),
            cleanupRaises)

(* ------------------------------ predicates ----------------------------- *)

IsConnected(s, o) == s.handle[o] # None
IsDisconnectedOrClosed(s, o) == s.handle[o] = None \/ s.tr[s.handle[o]].st = "closed"
IsDisconnected(s, o) == s.handle[o] = None
GetLastError(s) == get_last_error(s)

(* ---------------------- inputs of the operations ----------------------- *)

\* slave ids passed to TurnOn
SlaveIds == {1, 2}
\* setpoints passed to SetFlow, in ten-thousandths: 30.5, 0, 70.0, -0.0015
Setpoints == {305000, 0, 700000, -15}
\* raw values of the flow register
RawValues == {0, 300, 32768, 65535}
\* gas ids passed to SetGas
GasIds == {0, 7}

(* --------------------------- the test object --------------------------- *)

\* what the decorated test_operation of tests/test_modbus_utils.py does:
\* return None, MODBUS_OK, a tuple, MODBUS_ERROR or the configured error
\* sentinel (after set_last_error("Internal error")), or raise ValueError
TestFunctions == {"none", "ok", "pair", "error", "sentinel", "raise"}

test_operation(cfg, s, fn) ==
    CASE fn = "none" -> [s |-> s, out |-> Return(PyNone)]
      [] fn = "ok" -> [s |-> s, out |-> Return(PyInt(MODBUS_OK))]
      [] fn = "pair" -> [s |-> s, out |-> Return(PyPair(MODBUS_OK, 42))]
      [] fn = "error" -> [s |-> set_last_error(s, <<"Internal error">>),
                          out |-> Return(PyInt(MODBUS_ERROR))]
      [] fn = "sentinel" -> [s |-> set_last_error(s, <<"Internal error">>),
                             out |-> Return(PyInt(cfg.return_on_error))]
      [] OTHER -> [s |-> s, out |-> Raise("ValueError", <<"Test exception">>)]

\* the decorator arguments the tests use
TestConfigs ==
    {Config(OperationName("obj", "test_operation"), cl, rs[1], rs[2], sk, pr) :
        cl \in BOOLEAN, sk \in BOOLEAN, pr \in BOOLEAN,
        rs \in {<<MODBUS_OK, MODBUS_ERROR>>, <<42, -42>>}}

(* ------------------------------ the state ------------------------------ *)

NoScript == << >>

\* What the caller of an operation knows when it returns: the object and
\* the operation (o, op), the guard's arguments (cfg), what the wrapped test
\* function or the register read did (fn), the device attribute at entry
\* (entry), the connect script of the constructed transport (script), the
\* argument (req), the transport calls chosen to raise (fail), the
\* transport constructed (created, 0 if none), how the call ended (out),
\* and the calls, entered and raising wrapped functions and sleeps of the
\* call.
Last(o, op, cfg, fn, entry, script, req, fail, created, r) ==
    [o |-> o, op |-> op, cfg |-> cfg, fn |-> fn, entry |-> entry, script |-> script,
     req |-> req, fail |-> fail, created |-> created, out |-> r.out,
     calls |-> r.s.calls, invoked |-> r.s.invoked, raised |-> r.s.raised,
     sleeps |-> r.s.sleeps]

\* no call is in progress and no result is pending
Idle == Last("none", "idle", DefaultConfig("none"), "code", None, NoScript, 0, {}, 0,
             [s |-> State(<< >>, << >>, << >>, << >>, << >>, Console), out |-> Return(PyNone)])

\* what the caller remembers of its last operation on a device: the
\* object, the operation and how it ended ("raised": its wrapped function
\* raised, "failed": it returned a failure otherwise, "ok": anything else)
Summary(l) ==
    [o |-> l.o, op |-> l.op,
     how |-> IF \E p \in l.raised : p[1] = l.cfg.operation_name THEN "raised"
             ELSE IF l.out.kind = "raise" THEN "failed"
             ELSE IF l.out.val = PyInt(l.cfg.return_on_error) THEN "failed"
             ELSE IF l.out.val.t = "pair" /\ l.out.val.a = MODBUS_ERROR THEN "failed"
             ELSE "ok"]

\* Two threads of the application that call into the flow-regulator
\* controller without a lock.  A thread is between calls (pc = "idle") or at
\* a statement of SetFlow or TurnOff: the two register writes of SetFlow, the
\* device check of _close, self._gfr.close() and self._gfr = None.  dev is
\* the device its guard read at entry, alone tells that no other thread
\* was in a call since it entered, ran tells what its last register call
\* found in self._gfr ("ok", "closed" or "null").
Threads == {"t1", "t2"}
ThreadOps == {"SetFlow", "TurnOff"}
NotCalling == [pc |-> "idle", op |-> "none", dev |-> None, alone |-> TRUE, ran |-> ""]

\* A TurnOn call followed pass by pass through the loop of _init: no call
\* (pc = "idle"), in the loop before pass number attempt (pc = "connect"),
\* or returned with out (pc = "returned").  entry is the device the guard
\* read at entry, message is original_error_message, old_stderr the stream
\* _init saved, connects counts the connect() calls made.
NoTurnOn == [pc |-> "idle", o |-> "none", entry |-> None, attempt |-> 0,
             message |-> "", old_stderr |-> Console, connects |-> 0,
             out |-> Return(PyNone)]

\* The split of a scaled setpoint into its two register words, applied to
\* two values v and w: hv and hw are the (high, low) pairs once the split is
\* done.
NoSplit == [v |-> 0, w |-> 0, done |-> FALSE, hv |-> <<0, 0>>, hw |-> <<0, 0>>]

\* What a caller observes of one guarded call: the value returned, whether
\* the handle field is null afterwards, the close() calls made and whether
\* the error state of the guard's module is empty.
Observed(r, o) ==
    [out |-> r.out, null |-> GetAttr(r.s, o) = None,
     closes |-> Cardinality(CallsOf(r.s.calls, "close")), empty |-> r.s.err = << >>]

\* The same call made under the guard of core/utils/modbus_utils.py (new)
\* and under the guard of core/modbus_utils/utils.py (old); no call yet.
NoRun == [ran |-> FALSE, fn |-> "none", prefixed |-> FALSE, cleanup |-> FALSE,
          entry |-> None,
          new |-> [out |-> Return(PyNone), null |-> TRUE, closes |-> 0, empty |-> TRUE],
          old |-> [out |-> Return(PyNone), null |-> TRUE, closes |-> 0, empty |-> TRUE]]

Constructed ==
    /\ handle = [o \in Obj |-> None]
    /\ slave_id = [o \in Obj |-> DEFAULT_SLAVE_ID]
    /\ tr = [i \in TrIds |-> [st |-> "free", closes |-> 0, hasClose |-> TRUE]]
    /\ LAST_ERROR = << >>
    /\ regs = [high |-> 0, low |-> 0]
    /\ last = Idle
    /\ prev = Summary(Idle)
    /\ th = [t \in Threads |-> NotCalling]
    /\ loop = NoTurnOn
    /\ stderr = Console
    /\ both = NoRun

Init == Constructed /\ split = NoSplit

Now == State(handle, slave_id, tr, LAST_ERROR, regs, stderr)

\* the state after a call that ended as r
\* the transport object the call constructed, 0 if it constructed none
Created(before, after) ==
    IF \E i \in 1..MaxTransports : before[i].st = "free" /\ after[i].st # "free"
    THEN CHOOSE i \in 1..MaxTransports : before[i].st = "free" /\ after[i].st # "free"
    ELSE 0

\* the names of the inputs that are TRUE
Chosen(flags) == {n \in DOMAIN flags : flags[n]}

\* The step of a call that ended as result.  The flow regulator's setpoint
\* registers are followed (follow) only where a property reads them.
Step(follow, o, op, cfg, fn, script, req, fail, result) ==
    \E r \in {result} :
       /\ handle' = r.s.handle
       /\ slave_id' = r.s.slave_id
       /\ tr' = r.s.tr
       /\ LAST_ERROR' = r.s.err
       /\ regs' = IF follow THEN r.s.regs ELSE regs
       /\ prev' = prev
       /\ th' = th
       /\ loop' = loop
       /\ stderr' = r.s.stderr
       /\ split' = split
       /\ both' = both
       /\ last' = Last(o, op, cfg, fn, handle[o], script, req, fail,
                       Created(tr, r.s.tr), r)

Finish(o, op, cfg, fn, script, req, fail, result) ==
    Step(FALSE, o, op, cfg, fn, script, req, fail, result)

\* the caller is not holding the result of an earlier call
Ready == last = Idle

\* bounds: a transport object is left to construct; the closes of the call
\* (at most two) stay within MaxCloses
CanConstruct == \E i \in 1..MaxTransports : tr[i].st = "free"
CanClose(o) == IF handle[o] \in {None, Missing} THEN TRUE
               ELSE tr[handle[o]].closes + 2 <= MaxCloses

(* ----------------------------- operations ------------------------------ *)

\* the behaviours of the transport a TurnOn constructs: the constructor
\* raises, or the object follows a connect script
Constructions == {<<TRUE, NoScript>>} \cup {<<FALSE, sc>> : sc \in Scripts}

\* write_register on the constructed transport: it may raise, and it does
\* raise on a transport that never connected
WriteBehaviours(script) ==
    IF \E i \in DOMAIN script : script[i] = "ok" THEN BOOLEAN ELSE {TRUE}

\* close() of the device the attribute holds at entry: it may raise; there
\* is nothing to choose when the attribute holds no device
CloseBehaviours(o) == IF handle[o] \in {None, Missing} THEN {FALSE} ELSE BOOLEAN

GfrTurnOn ==
    /\ Ready
    /\ CanConstruct /\ CanClose("gfr")
    /\ \E con \in Constructions, id \in SlaveIds, cr \in CloseBehaviours("gfr") :
          Finish("gfr", "TurnOn", TurnOnConfig("gfr"), "code", con[2], id,
                 Chosen([constructor |-> con[1], cleanup |-> cr]),
                 gfr_TurnOn(Now, con[1], con[2], id, cr))

RelayTurnOn ==
    /\ Ready
    /\ CanConstruct /\ CanClose("relay")
    /\ \E con \in Constructions, id \in SlaveIds, cr \in CloseBehaviours("relay") :
          \E wr \in WriteBehaviours(con[2]) :
             Finish("relay", "TurnOn", TurnOnConfig("relay"), "code", con[2], id,
                    Chosen([constructor |-> con[1], write |-> wr, cleanup |-> cr]),
                    relay_TurnOn(Now, con[1], con[2], id, wr, cr))

GfrTurnOff ==
    /\ Ready
    /\ CanClose("gfr")
    /\ \E closeRaises \in CloseBehaviours("gfr"), cr \in CloseBehaviours("gfr") :
          Finish("gfr", "TurnOff", TurnOffConfig("gfr"), "code",
                 NoScript, 0, Chosen([close |-> closeRaises, cleanup |-> cr]),
                 gfr_TurnOff(Now, closeRaises, cr))

RelayTurnOff ==
    /\ Ready
    /\ CanClose("relay")
    /\ \E wr \in BOOLEAN, closeRaises \in CloseBehaviours("relay"),
          cr \in CloseBehaviours("relay") :
          Finish("relay", "TurnOff", TurnOffConfig("relay"), "code",
                 NoScript, 0, Chosen([write |-> wr, close |-> closeRaises, cleanup |-> cr]),
                 relay_TurnOff(Now, wr, closeRaises, cr))

GfrSetFlow ==
    /\ Ready
    /\ CanClose("gfr")
    /\ \E sp \in Setpoints, hr \in BOOLEAN, lr \in BOOLEAN, cr \in CloseBehaviours("gfr") :
          Finish("gfr", "SetFlow", SetFlowConfig, "code",
                 NoScript, sp, Chosen([high |-> hr, low |-> lr, cleanup |-> cr]),
                 gfr_SetFlow(Now, sp, hr, lr, cr))

GfrGetFlow ==
    /\ Ready
    /\ CanClose("gfr")
    /\ \E rd \in ReadOutcomes(RawValues), cr \in CloseBehaviours("gfr") :
          Finish("gfr", "GetFlow", GetFlowConfig, rd[1], NoScript, rd[2],
                 Chosen([cleanup |-> cr]), gfr_GetFlow(Now, rd, cr))

GfrSetGas ==
    /\ Ready
    /\ CanClose("gfr")
    /\ \E g \in GasIds, wr \in BOOLEAN, cr \in CloseBehaviours("gfr") :
          Finish("gfr", "SetGas", SetGasConfig, "code",
                 NoScript, g, Chosen([write |-> wr, cleanup |-> cr]),
                 gfr_SetGas(Now, g, wr, cr))

\* IsConnected / IsDisconnected / GetLastError of either controller
Query ==
    /\ Ready
    /\ \E o \in Ctl, q \in {"IsConnected", "IsDisconnected", "GetLastError"} :
       Finish(o, q, DefaultConfig("none"), "code", NoScript, 0, {},
              [s |-> Now,
               out |-> Return(CASE q = "IsConnected" -> PyBool(IsConnected(Now, o))
                                [] q = "IsDisconnected" -> PyBool(IsDisconnected(Now, o))
                                [] OTHER -> PyStr(GetLastError(Now)))])

\* the caller has looked at the result of its call and makes the next one
TakeResult ==
    /\ last # Idle
    /\ last' = Idle
    /\ UNCHANGED <<handle, slave_id, tr, LAST_ERROR, regs, prev, th, loop, stderr, split, both>>

Next ==
    \/ TakeResult
    \/ GfrTurnOn
    \/ RelayTurnOn
    \/ GfrTurnOff
    \/ RelayTurnOff
    \/ GfrSetFlow
    \/ GfrGetFlow
    \/ GfrSetGas
    \/ Query

Spec == Init /\ [][Next]_vars

(* ------------------- the guard on the test object ---------------------- *)

\* a test builds its object: the device attribute is missing, None, or a
\* device with or without a close method
TestSetup ==
    /\ Ready
    /\ \E a \in {Missing, None, TestDev}, hc \in BOOLEAN :
       /\ handle' = [handle EXCEPT !["obj"] = a]
       /\ tr' = [tr EXCEPT ![TestDev] = [st |-> IF a = TestDev THEN "open" ELSE "free",
                                         closes |-> 0,
                                         hasClose |-> IF a = TestDev THEN hc ELSE TRUE]]
       /\ last' = Last("obj", "setup", DefaultConfig("none"), "code", handle["obj"], NoScript, 0,
                       {}, 0, [s |-> Now, out |-> Return(PyNone)])
       /\ UNCHANGED <<slave_id, LAST_ERROR, regs, prev, th, loop, stderr, split, both>>

\* a test calls its decorated operation
TestOperation ==
    /\ Ready
    /\ \E cfg \in TestConfigs, fn \in TestFunctions, cr \in CloseBehaviours("obj") :
       Finish("obj", "test_operation", cfg, fn, NoScript, 0, Chosen([cleanup |-> cr]),
              Wrapper(cfg, "obj", Now, test_operation(cfg, Entered(cfg, Now), fn), cr))

\* the arguments the tests pass to set_last_error: the empty string, a
\* text, the integer 123 and None
ErrorArguments == {"empty", "text", "int", "None"}
ErrorArgument(a) ==
    CASE a = "empty" -> PyStr(<< >>)
      [] a = "text" -> PyStr(<<"Test error message">>)
      [] a = "int" -> PyInt(123)
      [] OTHER -> PyNone

\* a test calls set_last_error
CallSetLastError ==
    /\ Ready
    /\ \E a \in ErrorArguments :
          Finish("obj", "set_last_error", DefaultConfig("none"), a, NoScript, 0, {},
                 set_last_error_of(Now, ErrorArgument(a)))

\* a test calls reset_last_error
CallResetLastError ==
    /\ Ready
    /\ Finish("obj", "reset_last_error", DefaultConfig("none"), "code", NoScript, 0, {},
              [s |-> reset_last_error(Now), out |-> Return(PyNone)])

\* a test calls get_last_error
CallGetLastError ==
    /\ Ready
    /\ Finish("obj", "get_last_error", DefaultConfig("none"), "code", NoScript, 0, {},
              [s |-> Now, out |-> Return(PyStr(get_last_error(Now)))])

GuardNext ==
    \/ TakeResult
    \/ TestSetup
    \/ TestOperation
    \/ CallSetLastError
    \/ CallResetLastError
    \/ CallGetLastError

GuardSpec == Init /\ [][GuardNext]_vars

(* ------------- the controllers with the device and a caller ------------ *)

\* The same operations, with the flow regulator's setpoint registers
\* followed and with a caller that remembers how its previous call ended.
\* The transports are constructed without error and connect at once, at
\* the third attempt or never.
DeviceScripts == {<<"ok", "ok", "ok">>, <<"false", "false", "ok">>,
                  <<"false", "false", "false">>}
DeviceSetpoints == {305000, 700000}
DeviceRawValues == {300}
DeviceSlaveIds == {2}

DevGfrTurnOn ==
    /\ Ready
    /\ CanConstruct /\ CanClose("gfr")
    /\ \E sc \in DeviceScripts, id \in DeviceSlaveIds, cr \in CloseBehaviours("gfr") :
          Step(TRUE, "gfr", "TurnOn", TurnOnConfig("gfr"), "code", sc, id,
               Chosen([cleanup |-> cr]), gfr_TurnOn(Now, FALSE, sc, id, cr))

DevRelayTurnOn ==
    /\ Ready
    /\ CanConstruct /\ CanClose("relay")
    /\ \E sc \in DeviceScripts, id \in DeviceSlaveIds, cr \in CloseBehaviours("relay") :
          \E wr \in WriteBehaviours(sc) :
             Step(TRUE, "relay", "TurnOn", TurnOnConfig("relay"), "code", sc, id,
                  Chosen([write |-> wr, cleanup |-> cr]),
                  relay_TurnOn(Now, FALSE, sc, id, wr, cr))

DevGfrTurnOff ==
    /\ Ready
    /\ CanClose("gfr")
    /\ \E closeRaises \in CloseBehaviours("gfr"), cr \in CloseBehaviours("gfr") :
          Step(TRUE, "gfr", "TurnOff", TurnOffConfig("gfr"), "code",
               NoScript, 0, Chosen([close |-> closeRaises, cleanup |-> cr]),
               gfr_TurnOff(Now, closeRaises, cr))

DevRelayTurnOff ==
    /\ Ready
    /\ CanClose("relay")
    /\ \E wr \in BOOLEAN, closeRaises \in CloseBehaviours("relay"),
          cr \in CloseBehaviours("relay") :
          Step(TRUE, "relay", "TurnOff", TurnOffConfig("relay"), "code",
               NoScript, 0, Chosen([write |-> wr, close |-> closeRaises, cleanup |-> cr]),
               relay_TurnOff(Now, wr, closeRaises, cr))

DevGfrSetFlow ==
    /\ Ready
    /\ CanClose("gfr")
    /\ \E sp \in DeviceSetpoints, hr \in BOOLEAN, lr \in BOOLEAN,
          cr \in CloseBehaviours("gfr") :
          Step(TRUE, "gfr", "SetFlow", SetFlowConfig, "code",
               NoScript, sp, Chosen([high |-> hr, low |-> lr, cleanup |-> cr]),
               gfr_SetFlow(Now, sp, hr, lr, cr))

DevGfrGetFlow ==
    /\ Ready
    /\ CanClose("gfr")
    /\ \E rd \in ReadOutcomes(DeviceRawValues), cr \in CloseBehaviours("gfr") :
          Step(TRUE, "gfr", "GetFlow", GetFlowConfig, rd[1], NoScript, rd[2],
               Chosen([cleanup |-> cr]), gfr_GetFlow(Now, rd, cr))

DevGfrSetGas ==
    /\ Ready
    /\ CanClose("gfr")
    /\ \E g \in GasIds, wr \in BOOLEAN, cr \in CloseBehaviours("gfr") :
          Step(TRUE, "gfr", "SetGas", SetGasConfig, "code",
               NoScript, g, Chosen([write |-> wr, cleanup |-> cr]),
               gfr_SetGas(Now, g, wr, cr))

\* GetLastError of either controller
DevGetLastError ==
    /\ Ready
    /\ \E o \in Ctl :
          Step(TRUE, o, "GetLastError", DefaultConfig("none"), "code", NoScript, 0, {},
               [s |-> Now, out |-> Return(PyStr(GetLastError(Now)))])

\* the caller has looked at the result of its call, remembers how it ended
\* if it was an operation on a device, and makes the next one
Remember ==
    /\ last # Idle
    /\ last' = Idle
    /\ prev' = IF last.op = "GetLastError" THEN prev ELSE Summary(last)
    /\ UNCHANGED <<handle, slave_id, tr, LAST_ERROR, regs, th, loop, stderr, split, both>>

DeviceNext ==
    \/ Remember
    \/ DevGfrTurnOn
    \/ DevRelayTurnOn
    \/ DevGfrTurnOff
    \/ DevRelayTurnOff
    \/ DevGfrSetFlow
    \/ DevGfrGetFlow
    \/ DevGfrSetGas
    \/ DevGetLastError

DeviceSpec == Init /\ [][DeviceNext]_vars

(* ------------- two threads on the flow-regulator controller ------------- *)

\* The statements of SetFlow and TurnOff run one at a time, and the other
\* thread may run between any two of them.  No lock is taken anywhere in
\* modbus_utils.py or in the controller.
ThreadSetpoint == 305000

Other(t) == CHOOSE u \in Threads : u # t
InCall(t) == th[t].pc # "idle"

PassesCheckAlways(cfg, device) == TRUE

\* the guard lets the call through to the wrapped function
PassesCheck(cfg, device) == ~DeviceCheckFails(cfg, device)

\* the state of the controller after a statement; every close it made stays
\* within MaxCloses
ThApply(s) ==
    /\ \A i \in 1..MaxTransports : s.tr[i].closes <= MaxCloses
    /\ handle' = s.handle
    /\ slave_id' = s.slave_id
    /\ tr' = s.tr
    /\ LAST_ERROR' = s.err
    /\ stderr' = s.stderr
    /\ UNCHANGED <<regs, last, prev, loop, split, both>>

\* thread t starts a call while the other thread may be inside one
Overlap(t) == [u \in Threads |-> IF u # t /\ InCall(u)
                                 THEN [th[u] EXCEPT !.alone = FALSE]
                                 ELSE th[u]]

\* thread t returns from its call
Leaves(t, found) == th' = [th EXCEPT ![t].pc = "idle", ![t].ran = found]

\* what a register call finds in self._gfr
Found(cur) == IF cur = None THEN "null"
              ELSE IF tr[cur].st = "closed" THEN "closed" ELSE "ok"

\* a thread connects the controller (TurnOn, all of it)
ThTurnOn ==
    \E t \in Threads :
       /\ th[t].pc = "idle"
       /\ CanConstruct
       /\ GetAttr(Now, "gfr") = None
       /\ ThApply(gfr_TurnOn(Now, FALSE, <<"ok", "ok", "ok">>, DEFAULT_SLAVE_ID, FALSE).s)
       /\ th' = [Overlap(t) EXCEPT ![t] = [NotCalling EXCEPT !.op = "TurnOn"]]

\* wrapper reads the device and checks it: SetFlow goes on to its first
\* write, TurnOff to self._close()
ThEnter ==
    \E t \in Threads, op \in ThreadOps :
       /\ th[t].pc = "idle"
       /\ LET cfg == IF op = "SetFlow" THEN SetFlowConfig ELSE TurnOffConfig("gfr")
              device == GetAttr(Now, "gfr")
          IN IF ~PassesCheck(cfg, device)
             THEN /\ ThApply(set_last_error(Now, NotInitializedMessage(cfg.operation_name)))
                  /\ th' = [Overlap(t) EXCEPT ![t] = [NotCalling EXCEPT !.op = op]]
             ELSE /\ ThApply(Now)
                  /\ th' = [Overlap(t) EXCEPT ![t] =
                               [pc |-> IF op = "SetFlow" THEN "write_high" ELSE "close_check",
                                op |-> op, dev |-> device,
                                alone |-> ~InCall(Other(t)), ran |-> ""]]

\* self._gfr.write_register(...) of SetFlow: self._gfr is read now, the
\* handler cleans up the device read at entry
ThWrite ==
    \E t \in Threads, raises \in BOOLEAN, closeRaises \in BOOLEAN :
       /\ th[t].pc \in {"write_high", "write_low"}
       /\ LET cur == GetAttr(Now, "gfr")
              value == Scaled(ThreadSetpoint)
              high == th[t].pc = "write_high"
              w == WriteRegister(Now, cur,
                      IF high THEN MODBUS_REGISTER_SETPOINT_HIGH
                              ELSE MODBUS_REGISTER_SETPOINT_LOW,
                      IF high THEN RegHigh(value) ELSE RegLow(value),
                      slave_id["gfr"], raises)
          IN IF w.out.kind = "raise"
             THEN /\ ThApply(OnException(SetFlowConfig, "gfr", th[t].dev, w.s, w.out,
                                         closeRaises).s)
                  /\ Leaves(t, Found(cur))
             ELSE IF high
             THEN /\ ThApply(w.s)
                  /\ th' = [th EXCEPT ![t].pc = "write_low", ![t].ran = Found(cur)]
             ELSE /\ ThApply(OnResult(SetFlowConfig, w.s, PyNone).s)
                  /\ Leaves(t, Found(cur))

\* the guard of _close, called from TurnOff, reads the device again
ThCloseCheck ==
    \E t \in Threads :
       /\ th[t].pc = "close_check"
       /\ LET device == GetAttr(Now, "gfr")
          IN IF ~PassesCheck(CloseConfig("gfr"), device)
             THEN /\ ThApply(OnResult(TurnOffConfig("gfr"),
                                set_last_error(Now,
                                   NotInitializedMessage(CloseConfig("gfr").operation_name)),
                                PyNone).s)
                  /\ Leaves(t, th[t].ran)
             ELSE /\ ThApply(Now)
                  /\ th' = [th EXCEPT ![t].pc = "close", ![t].dev = device]

\* self._gfr.close() of _close
ThClose ==
    \E t \in Threads, raises \in BOOLEAN, closeRaises \in BOOLEAN :
       /\ th[t].pc = "close"
       /\ LET c == DeviceClose(Now, GetAttr(Now, "gfr"), raises)
          IN IF c.out.kind = "raise"
             THEN /\ ThApply(OnResult(TurnOffConfig("gfr"),
                                OnException(CloseConfig("gfr"), "gfr", th[t].dev, c.s,
                                            c.out, closeRaises).s,
                                PyNone).s)
                  /\ Leaves(t, th[t].ran)
             ELSE /\ ThApply(c.s)
                  /\ th' = [th EXCEPT ![t].pc = "null"]

\* self._gfr = None of _close, and the two guards return
ThNull ==
    \E t \in Threads :
       /\ th[t].pc = "null"
       /\ ThApply(OnResult(TurnOffConfig("gfr"),
                     OnResult(CloseConfig("gfr"), SetAttr(Now, "gfr", None), PyNone).s,
                     PyNone).s)
       /\ Leaves(t, th[t].ran)

ThreadNext ==
    \/ ThTurnOn
    \/ ThEnter
    \/ ThWrite
    \/ ThCloseCheck
    \/ ThClose
    \/ ThNull

ThreadSpec == Init /\ [][ThreadNext]_vars

(* ------------------ TurnOn, pass by pass through the loop --------------- *)

\* the state of the controllers after a statement of the call
TnApply(s) ==
    /\ \A i \in 1..MaxTransports : s.tr[i].closes <= MaxCloses
    /\ handle' = s.handle
    /\ slave_id' = s.slave_id
    /\ tr' = s.tr
    /\ LAST_ERROR' = s.err
    /\ stderr' = s.stderr
    /\ UNCHANGED <<regs, last, prev, th, split, both>>

\* the guard returns r to the caller
TnReturns(r) ==
    /\ TnApply(r.s)
    /\ loop' = [loop EXCEPT !.pc = "returned", !.out = r.out]

\* TurnOn after a connect() that returned True: _init returns, the relay
\* writes 1 to its on/off register, and the guard handles the outcome
AfterConnected(o, s, entry, writeRaises, cleanupRaises) ==
    LET cfg == TurnOnConfig(o)
        w == IF o = "relay"
             THEN WriteRegister(s, s.handle[o], MODBUS_REGISTER_TURN_ON_OFF, 1,
                                s.slave_id[o], writeRaises)
             ELSE [s |-> s, out |-> Return(PyNone)]
    IN IF w.out.kind = "raise"
       THEN OnException(cfg, o, entry, w.s, w.out, cleanupRaises)
       ELSE OnResult(cfg, w.s, w.out.val)

\* the state in which the call that is in the loop goes on: old_stderr is
\* the stream _init saved
InLoop == [Now EXCEPT !.old_stderr = loop.old_stderr]

\* TurnOn is called: the guard reads the device, _init constructs the
\* transport object and sets the slave address
TnStart ==
    \E o \in Ctl, id \in SlaveIds, ctorRaises \in BOOLEAN, cleanupRaises \in BOOLEAN :
       /\ loop.pc = "idle"
       /\ CanConstruct
       /\ LET cfg == TurnOnConfig(o)
              device == GetAttr(Now, o)
              started == [NoTurnOn EXCEPT !.o = o, !.entry = device, !.old_stderr = stderr]
              c == Construct(o, Entered(cfg, Now), id)
          IN IF DeviceCheckFails(cfg, device)
             THEN /\ TnApply(set_last_error(Now, NotInitializedMessage(cfg.operation_name)))
                  /\ loop' = [started EXCEPT !.pc = "returned",
                                             !.out = Return(PyInt(cfg.return_on_error))]
             ELSE IF ctorRaises
             THEN LET r == OnException(cfg, o, device, Entered(cfg, Now),
                                       Raise("Exception", ConstructFailedText(o)),
                                       cleanupRaises)
                  IN /\ TnApply(r.s)
                     /\ loop' = [started EXCEPT !.pc = "returned", !.out = r.out]
             ELSE /\ TnApply(c.s)
                  /\ loop' = [started EXCEPT !.pc = "connect", !.attempt = 1]

\* one pass of the loop, whatever connect() does
TnAttempt ==
    \E res \in ConnectOutcomes, writeRaises \in BOOLEAN, cleanupRaises \in BOOLEAN :
       /\ loop.pc = "connect"
       /\ ~LoopExhausted(loop.attempt)
       /\ loop.attempt <= MaxAttempts
       /\ LET a == ConnectAttempt(loop.o, InLoop, res, loop.attempt, loop.message)
              r == AfterConnected(loop.o, a.s, loop.entry, writeRaises, cleanupRaises)
          IN IF a.connected
             THEN /\ TnApply(r.s)
                  /\ loop' = [loop EXCEPT !.pc = "returned", !.out = r.out,
                                          !.connects = @ + 1]
             ELSE /\ TnApply(a.s)
                  /\ loop' = [loop EXCEPT !.attempt = @ + 1, !.message = a.message,
                                          !.connects = @ + 1]

\* the loop is over: _init raises and the guard handles the exception
TnExhausted ==
    \E cleanupRaises \in BOOLEAN :
       /\ loop.pc = "connect"
       /\ LoopExhausted(loop.attempt)
       /\ LET e == LoopExit(loop.o, InLoop, loop.message)
          IN TnReturns(OnException(TurnOnConfig(loop.o), loop.o, loop.entry, e.s, e.out,
                                   cleanupRaises))

\* the caller takes the result
TnTake ==
    /\ loop.pc = "returned"
    /\ loop' = NoTurnOn
    /\ UNCHANGED <<handle, slave_id, tr, LAST_ERROR, regs, last, prev, th, stderr, split, both>>

TurnOnNext ==
    \/ TnStart
    \/ TnAttempt
    \/ TnExhausted
    \/ TnTake

\* the thread inside TurnOn keeps running: sleep() returns and connect()
\* returns or raises
TurnOnSpec ==
    Init /\ [][TurnOnNext]_vars /\ WF_vars(TnAttempt) /\ WF_vars(TnExhausted)

(* ------------------------ the split of a setpoint ----------------------- *)

\* scaled setpoint values over the signed 32-bit range: the ends of the
\* range, the values around 0 and the values around a carry into the high
\* word
SplitHighs == {-32768, -1, 0, 1, 32767}
SplitLows == {0, 1, 32768, 65535}
SplitValues == {h * 65536 + l : h \in SplitHighs, l \in SplitLows}

CodecInit ==
    /\ Constructed
    /\ split \in {[NoSplit EXCEPT !.v = v, !.w = w] : v \in SplitValues, w \in SplitValues}

\* reg_high = value >> 16, reg_low = value & 0xFFFF, for both values
SplitSetpoint ==
    /\ ~split.done
    /\ split' = [split EXCEPT !.done = TRUE,
                              !.hv = <<RegHigh(split.v), RegLow(split.v)>>,
                              !.hw = <<RegHigh(split.w), RegLow(split.w)>>]
    /\ UNCHANGED <<handle, slave_id, tr, LAST_ERROR, regs, last, prev, th, loop, stderr, both>>

CodecNext == SplitSetpoint

CodecSpec == CodecInit /\ [][CodecNext]_vars

(* ------------------- the older guard, side by side --------------------- *)

\* core/modbus_utils/utils.py: getattr(self, device_attr, None) with the
\* name as it was given to the decorator; an object has no attribute named
\* "self._device"
OldGetAttr(s, o, prefixed) == IF prefixed THEN None ELSE GetAttr(s, o)

\* f"{operation_name} failed: Device is not initialized"
OldNotInitializedText(name) == <<name, "failed:", "Device is not initialized">>

\* the cleanup of the older guard: close if the device has one, errors of
\* close ignored, then the attribute is set to None
OldCleanup(s, o, device, closeRaises) ==
    LET c == IF s.tr[device].hasClose
             THEN DeviceClose(s, device, closeRaises)
             ELSE [s |-> s, out |-> Return(PyNone)]
    IN IF c.out.kind = "raise" /\ ~IsException(c.out.type)
       THEN [s |-> c.s, out |-> c.out]
       ELSE [s |-> SetAttr(c.s, o, None), out |-> Return(PyNone)]

\* the one handler of the older guard: without cleanup the error state is
\* set a second time, to the bare exception text
OldOnException(cfg, o, device, s, exc, closeRaises) ==
    LET s1 == set_last_error(s, FailedMessage(cfg.operation_name, exc.text))
    IN IF cfg.cleanup_on_error /\ device # None
       THEN LET c == OldCleanup(s1, o, device, closeRaises)
            IN IF c.out.kind = "raise" THEN c
               ELSE [s |-> c.s, out |-> Return(PyInt(cfg.return_on_error))]
       ELSE [s |-> set_last_error(s1, exc.text),
             out |-> Return(PyInt(cfg.return_on_error))]

\* modbus_operation(...)(func)(self) of core/modbus_utils/utils.py, where r
\* is what func(self) does
WrapperOld(cfg, o, s, r, closeRaises, prefixed) ==
    LET device == OldGetAttr(s, o, prefixed)
    IN IF device = None
       THEN OldOnException(cfg, o, device, s,
                           Raise("Exception", OldNotInitializedText(cfg.operation_name)),
                           closeRaises)
       ELSE IF r.out.kind = "raise"
       THEN IF IsException(r.out.type)
            THEN OldOnException(cfg, o, device, r.s, r.out, closeRaises)
            ELSE r
       ELSE IF PyEq(r.out.val, PyInt(MODBUS_ERROR))
       THEN [s |-> set_last_error(r.s, get_last_error(r.s)),
             out |-> Return(PyInt(cfg.return_on_error))]
       ELSE [s |-> reset_last_error(r.s), out |-> Return(PyInt(cfg.return_on_success))]

\* what the wrapped function does: the outcomes of test_operation, or it
\* raises an exception without a text (raise ValueError(), a failed assert)
EqFunctions == {"none", "ok", "error", "raise", "raise_empty"}

eq_operation(cfg, s, fn) ==
    IF fn = "raise_empty"
    THEN [s |-> s, out |-> Raise("ValueError", << >>)]
    ELSE test_operation(cfg, s, fn)

\* the arguments both decorators take, skip_device_check and
\* preserve_return_value at their defaults
EqConfigs ==
    {Config(OperationName("obj", "test_operation"), cl, rs[1], rs[2], FALSE, FALSE) :
        cl \in BOOLEAN, rs \in {<<MODBUS_OK, MODBUS_ERROR>>, <<42, -42>>}}

\* a fresh object under test is made: its device is missing, None or a
\* device, and the error state is empty or set by something earlier
EqSetup ==
    /\ both' = NoRun
    /\ \E a \in {Missing, None, TestDev}, hc \in BOOLEAN, e \in {<< >>, <<"Earlier error">>} :
       /\ handle' = [handle EXCEPT !["obj"] = a]
       /\ tr' = [tr EXCEPT ![TestDev] = [st |-> IF a = TestDev THEN "open" ELSE "free",
                                         closes |-> 0,
                                         hasClose |-> IF a = TestDev THEN hc ELSE TRUE]]
       /\ LAST_ERROR' = e
    /\ UNCHANGED <<slave_id, regs, last, prev, th, loop, stderr, split>>

\* the same operation is called under each guard on an object in this
\* state; device_attr is given plain ("_device") or as the controllers give
\* it ("self._device")
EqRun ==
    /\ ~both.ran
    /\ \E cfg \in EqConfigs, fn \in EqFunctions, prefixed \in BOOLEAN,
          cr \in CloseBehaviours("obj") :
          both' = [ran |-> TRUE, fn |-> fn, prefixed |-> prefixed,
                   cleanup |-> cfg.cleanup_on_error, entry |-> GetAttr(Now, "obj"),
                   new |-> Observed(Wrapper(cfg, "obj", Now,
                                            eq_operation(cfg, Entered(cfg, Now), fn), cr),
                                    "obj"),
                   old |-> Observed(WrapperOld(cfg, "obj", Now,
                                               eq_operation(cfg, Entered(cfg, Now), fn), cr,
                                               prefixed),
                                    "obj")]
    /\ UNCHANGED <<handle, slave_id, tr, LAST_ERROR, regs, last, prev, th, loop, stderr, split>>

EquivNext ==
    \/ EqSetup
    \/ EqRun

EquivSpec == Init /\ [][EquivNext]_vars

(* ------------------------------- claims -------------------------------- *)

\* the call that just returned
Called(op) == last.op = op /\ last.o \in Ctl
ReturnedValue(v) == last.out.kind = "return" /\ last.out.val = v
ReturnedErrorSentinel == ReturnedValue(PyInt(last.cfg.return_on_error))
ReturnedSuccessSentinel == ReturnedValue(PyInt(last.cfg.return_on_success))

\* the connect() calls of the call that just returned
Attempts == Cardinality(CallsOf(last.calls, "connect"))

\* C1: a TurnOn issued while Disconnected that fails returns the error
\* sentinel, records a non-empty error and leaves the controller
\* Disconnected: the handle is null and IsDisconnected() is true.
C1_FailedTurnOnStaysDisconnected ==
    (Called("TurnOn") /\ last.entry = None /\ ReturnedErrorSentinel) =>
        /\ LAST_ERROR # << >>
        /\ handle[last.o] = None
        /\ IsDisconnected(Now, last.o)

\* C2: after TurnOff on a Connected controller (its handle is a transport
\* whose connect succeeded) returns, the controller is Disconnected: the transport has been closed, the handle is null,
\* IsDisconnected() is true and IsConnected() is false.
C2_TurnOffDisconnects ==
    (Called("TurnOff") /\ last.entry # None /\ tr[last.entry].st # "new") =>
        /\ CallsOf(last.calls, "close") # {}
        /\ handle[last.o] = None
        /\ IsDisconnected(Now, last.o)
        /\ ~IsConnected(Now, last.o)

\* the call that just returned went through the guard
Guarded == last.op \notin {"idle", "setup", "IsConnected", "IsDisconnected", "GetLastError",
                           "set_last_error", "reset_last_error", "get_last_error"}

\* the exception text with which the wrapped function of the call raised
RaisedWith(text) == <<last.cfg.operation_name, text>> \in last.raised
FunctionRaised == \E p \in last.raised : p[1] = last.cfg.operation_name

\* C3: a guarded operation invoked without skip_device_check while the
\* handle is null (or the attribute is missing) never invokes the wrapped
\* function, returns the configured error sentinel, sets the error state to
\* a message with the operation name and 'not initialized', and leaves the
\* handle null.
C3_NullHandleNeverInvokes ==
    (Guarded /\ ~last.cfg.skip_device_check /\ last.entry \in {None, Missing}) =>
        /\ last.invoked = {}
        /\ last.calls = << >>
        /\ ReturnedErrorSentinel
        /\ Contains(LAST_ERROR, last.cfg.operation_name)
        /\ Contains(LAST_ERROR, "device not initialized")
        /\ handle[last.o] = last.entry

C3_Witness ==
    /\ last.op = "test_operation" /\ ~last.cfg.skip_device_check
    /\ last.entry = Missing /\ last.fn = "ok"
    /\ last.cfg.return_on_error = -42 /\ ReturnedValue(PyInt(-42))
    /\ LAST_ERROR = NotInitializedMessage("Test Operation")

\* C4: a guarded operation with cleanup_on_error whose handle is non-null at
\* entry and whose wrapped function raises: the error state is
\* '<operation name> failed: <exception text>', close is attempted on the
\* handle (when it has a close method), the handle field is null afterwards
\* whether or not close raised, and the error sentinel is returned.
C4_RaiseCleansUp ==
    (Guarded /\ last.cfg.cleanup_on_error /\ last.entry \notin {None, Missing}
        /\ FunctionRaised) =>
        /\ \E text \in {p[2] : p \in last.raised} :
              /\ RaisedWith(text)
              /\ LAST_ERROR = FailedMessage(last.cfg.operation_name, text)
        /\ tr[last.entry].hasClose =>
              \E i \in CallsOf(last.calls, "close") : last.calls[i][1] = last.entry
        /\ handle[last.o] = None
        /\ ReturnedErrorSentinel

C4_Witness ==
    /\ last.op = "test_operation" /\ last.cfg.cleanup_on_error /\ last.fn = "raise"
    /\ last.entry = TestDev /\ tr[TestDev].hasClose /\ "cleanup" \in last.fail
    /\ handle["obj"] = None /\ ReturnedErrorSentinel
    /\ LAST_ERROR = <<"Test Operation", "failed:", "Test exception">>

\* the outcome the caller reads off the returned value
Succeeded == \/ ReturnedSuccessSentinel
             \/ last.out.kind = "return" /\ last.out.val.t = "pair" /\ last.out.val.a = MODBUS_OK
Failed == \/ ReturnedErrorSentinel
          \/ last.out.kind = "return" /\ last.out.val.t = "pair" /\ last.out.val.a = MODBUS_ERROR

\* C5: GetLastError() is the empty string immediately after every guarded
\* controller operation that succeeded (GetFlow's success tuple included)
\* and non-empty immediately after every one that failed (GetFlow's
\* (error sentinel, 0) included), whatever the error state held before.
C5_ErrorStateFollowsOutcome ==
    (Guarded /\ last.o \in Ctl) =>
        /\ Succeeded => GetLastError(Now) = << >>
        /\ Failed => GetLastError(Now) # << >>

\* C6: every public controller method returns normally in every reachable
\* state and for every behaviour of the transport: no exception reaches the
\* caller.
C6_NoExceptionReachesCaller ==
    last.o \in Ctl => last.out.kind = "return"

C6_Witness ==
    /\ Called("SetFlow") /\ last.entry # None
    /\ "low" \in last.fail /\ "cleanup" \in last.fail
    /\ RaisedWith(<<"write failed">>)
    /\ Cardinality(CallsOf(last.calls, "close")) = 1
    /\ ReturnedErrorSentinel

\* C7: every call to GetFlow, in every controller state, returns a pair
\* (status, value) and never a bare status code.
C7_GetFlowReturnsPair ==
    Called("GetFlow") => last.out.kind = "return" /\ last.out.val.t = "pair"

\* the first connect() of the script that succeeds, 0 if none does
FirstOk(script) ==
    IF \E i \in DOMAIN script : script[i] = "ok"
    THEN CHOOSE i \in DOMAIN script :
            script[i] = "ok" /\ \A j \in DOMAIN script : script[j] = "ok" => i <= j
    ELSE 0

\* the call that just returned is a TurnOn whose transport was constructed
TurnOnConstructed == Called("TurnOn") /\ "constructor" \notin last.fail

\* C8: connection establishment makes at most 3 connect attempts and stops
\* at the first success: connect failing twice then succeeding gives
\* success after exactly 3 attempts with the controller Connected, and
\* connect always failing gives a raised connection failure after exactly 3
\* attempts.
C8_AtMostThreeAttempts ==
    TurnOnConstructed =>
        /\ Attempts <= 3
        /\ FirstOk(last.script) # 0 =>
              /\ Attempts = FirstOk(last.script)
              /\ tr[last.created].st = "open"
              /\ (last.o = "gfr" \/ "write" \notin last.fail) =>
                    handle[last.o] = last.created /\ ReturnedSuccessSentinel
        /\ FirstOk(last.script) = 0 =>
              /\ Attempts = 3
              /\ \E p \in last.raised :
                    /\ p[1] = last.cfg.operation_name
                    /\ Contains(p[2], "after") /\ Contains(p[2], "3")
              /\ ReturnedErrorSentinel

C8_Witness ==
    /\ Called("TurnOn") /\ last.script = <<"false", "false", "ok">>
    /\ Attempts = 3 /\ last.sleeps = 2
    /\ handle[last.o] = last.created /\ tr[last.created].st = "open"
    /\ ReturnedSuccessSentinel

\* the attempts of the script that produced an error text
WithText(script) == {i \in DOMAIN script : script[i] \in {"raise", "stderr"}}

\* the text of the last attempt that produced one
LastCause(script) ==
    LET i == CHOOSE k \in WithText(script) : \A j \in WithText(script) : j <= k
    IN IF script[i] = "raise" THEN ExceptionText(i) ELSE StderrText(i)

\* C9: when all connect attempts are exhausted and at least one attempt
\* produced an error text, the error state after the failed TurnOn contains
\* the attempt count and the last underlying cause.
C9_ExhaustionNamesCountAndCause ==
    (TurnOnConstructed /\ FirstOk(last.script) = 0 /\ WithText(last.script) # {}) =>
        /\ Contains(LAST_ERROR, "3")
        /\ Contains(LAST_ERROR, LastCause(last.script))

\* C10: a TurnOn on a Disconnected controller whose transport is constructed
\* and whose connect succeeds within 3 attempts (and, for the relay, whose
\* write of 1 succeeds) returns the success sentinel, clears the error
\* state and leaves the controller Connected with the new handle stored and
\* slave_id equal to the requested slave id.
C10_TurnOnConnects ==
    (TurnOnConstructed /\ last.entry = None /\ FirstOk(last.script) # 0
        /\ "write" \notin last.fail) =>
        /\ ReturnedSuccessSentinel
        /\ LAST_ERROR = << >>
        /\ handle[last.o] = last.created /\ last.created # None
        /\ tr[last.created].st = "open"
        /\ IsConnected(Now, last.o)
        /\ slave_id[last.o] = last.req

C10_Witness ==
    /\ Called("TurnOn") /\ last.o = "relay" /\ last.entry = None
    /\ last.script = <<"stderr", "ok", "ok">> /\ last.req = 2
    /\ ReturnedSuccessSentinel /\ LAST_ERROR = << >>
    /\ handle["relay"] = last.created /\ slave_id["relay"] = 2
    /\ <<last.created, "write", MODBUS_REGISTER_TURN_ON_OFF, 1, 2>> \in
          {last.calls[i] : i \in DOMAIN last.calls}

\* the guarded operations that need a device: SetFlow, GetFlow, SetGas and
\* the relay's TurnOff
NeedsDevice(l) ==
    \/ l.o = "gfr" /\ l.op \in {"SetFlow", "GetFlow", "SetGas"}
    \/ l.o = "relay" /\ l.op = "TurnOff"

\* the close() calls the call issued on the device it found at entry
ClosesOfEntry == {i \in CallsOf(last.calls, "close") : last.calls[i][1] = last.entry}

\* a guarded operation raised while the controller was Connected: the
\* controller is Disconnected, close was called on the old transport (and
\* closed it unless close raised) and the error is recorded
C11_RaiseDisconnects ==
    (NeedsDevice(last) /\ last.entry # None /\ FunctionRaised) =>
        /\ handle[last.o] = None /\ IsDisconnected(Now, last.o)
        /\ ClosesOfEntry # {}
        /\ "cleanup" \notin last.fail => tr[last.entry].st = "closed"
        /\ \E text \in {p[2] : p \in last.raised} :
              LAST_ERROR = FailedMessage(last.cfg.operation_name, text)
        /\ ReturnedErrorSentinel

\* the next call is a TurnOn of the same controller that connects (and,
\* for the relay, writes 1): it returns the success sentinel and leaves the
\* controller Connected on a transport constructed by this call
C11_TurnOnRecovers ==
    (/\ last = Idle /\ prev.how = "raised" /\ NeedsDevice(prev)
     /\ last'.op = "TurnOn" /\ last'.o = prev.o
     /\ FirstOk(last'.script) # 0 /\ "write" \notin last'.fail) =>
        /\ last'.out = Return(PyInt(MODBUS_OK))
        /\ handle[prev.o] = None
        /\ last'.created # 0 /\ handle'[prev.o] = last'.created
        /\ tr[last'.created].st = "free" /\ tr'[last'.created].st = "open"
        /\ LAST_ERROR' = << >>

\* after a TurnOn that succeeded, a guarded operation of that controller
\* whose transport calls do not raise succeeds
C11_OperationsSucceedAgain ==
    (/\ prev.op = "TurnOn" /\ prev.how = "ok" /\ last.o = prev.o /\ NeedsDevice(last)
     /\ last.fail = {} /\ (last.op = "GetFlow" => last.fn = "value")) =>
        Succeeded

\* C11: when a guarded operation (SetFlow, GetFlow, SetGas, relay TurnOff)
\* raises while the controller is Connected, the controller becomes
\* Disconnected with the old transport closed and the error recorded, and a
\* subsequent TurnOn that connects returns the success sentinel and leaves
\* the controller Connected on a fresh handle, so that guarded operations
\* succeed again.
C11_SelfHeals ==
    /\ [](C11_RaiseDisconnects /\ C11_OperationsSucceedAgain)
    /\ [][C11_TurnOnRecovers]_vars

C11_Witness ==
    /\ prev = [o |-> "gfr", op |-> "SetFlow", how |-> "raised"]
    /\ Called("TurnOn") /\ last.o = "gfr" /\ last.entry = None
    /\ ReturnedSuccessSentinel /\ LAST_ERROR = << >>
    /\ handle["gfr"] = last.created /\ tr[last.created].st = "open"
    /\ \E i \in 1..MaxTransports : i # last.created /\ tr[i].st = "closed"

\* the transport calls of the call that just returned, by method
Writes == CallsOf(last.calls, "write")
Closes == CallsOf(last.calls, "close")

\* the call that just returned is a relay TurnOff that found a handle
RelayTurnOffWithHandle == Called("TurnOff") /\ last.o = "relay" /\ last.entry # None

\* the one write of a relay TurnOff: 0 to register 512 for the stored slave
\* id, before every close
OneWriteOfZeroFirst ==
    /\ Cardinality(Writes) = 1
    /\ last.calls[1] = Call(last.entry, "write", MODBUS_REGISTER_TURN_ON_OFF, 0,
                            slave_id["relay"])
    /\ \A i \in Closes : i > 1 /\ last.calls[i][1] = last.entry

RelayTurnOn_Called == Called("TurnOn") /\ last.o = "relay"

\* connection establishment of the TurnOn that just returned succeeded
Established == "constructor" \notin last.fail /\ FirstOk(last.script) # 0

\* C13: relay TurnOn writes 1 to on/off register 512, tagged with the slave
\* id passed to that TurnOn, exactly once and only after connection
\* establishment has succeeded; when connection establishment fails no
\* register write is issued.
C13_RelayTurnOnWritesOnceAfterConnect ==
    RelayTurnOn_Called =>
        IF Established
        THEN /\ Cardinality(Writes) = 1
             /\ Attempts = FirstOk(last.script)
             /\ \A i \in 1..Attempts : last.calls[i] = Call(last.created, "connect", 0, 0, 0)
             /\ last.calls[Attempts + 1] =
                   Call(last.created, "write", MODBUS_REGISTER_TURN_ON_OFF, 1, last.req)
             /\ tr[last.created].st = "open"
        ELSE Writes = {}

C13_Witness ==
    /\ RelayTurnOn_Called /\ last.script = <<"false", "false", "ok">> /\ last.req = 2
    /\ last.fail = {}
    /\ last.calls = <<Call(last.created, "connect", 0, 0, 0),
                      Call(last.created, "connect", 0, 0, 0),
                      Call(last.created, "connect", 0, 0, 0),
                      Call(last.created, "write", MODBUS_REGISTER_TURN_ON_OFF, 1, 2)>>
    /\ ReturnedSuccessSentinel

\* the call that just returned is a SetFlow on a controller with a handle
SetFlowWithHandle == Called("SetFlow") /\ last.entry # None

\* the high write of the SetFlow that just returned raised: the transport
\* raised, or the word is not a register value
HighWriteRaised == "high" \in last.fail \/ ~ValidRegisterValue(last.calls[1][4])

\* high is value >> 16: the word h with h * 2^16 <= value < (h + 1) * 2^16
IsHighWord(h, value) == h * 65536 <= value /\ value < (h + 1) * 65536

InSigned32(v) == v >= -2147483647 - 1 /\ v <= 2147483647

\* C14: for every setpoint whose scaled value v = int(s*1000) lies in the
\* signed 32-bit range, SetFlow on a Connected controller issues exactly
\* two register writes in this order: high = v >> 16 to register 2053, then
\* low = v & 0xFFFF to register 2054, both tagged with the stored slave id
\* (v = 30500 gives high 0, low 30500); if the high write raises, the low
\* write is not issued.
C14_SetFlowWritesHighThenLow ==
    (SetFlowWithHandle /\ InSigned32(Scaled(last.req))) =>
        LET v == Scaled(last.req)
        IN /\ Closes = (DOMAIN last.calls) \ Writes
           /\ last.calls[1][1] = last.entry /\ last.calls[1][2] = "write"
           /\ last.calls[1][3] = 2053 /\ IsHighWord(last.calls[1][4], v)
           /\ last.calls[1][5] = slave_id["gfr"]
           /\ IF HighWriteRaised
              THEN Writes = {1}
              ELSE /\ Writes = {1, 2}
                   /\ last.calls[2][1] = last.entry /\ last.calls[2][3] = 2054
                   /\ last.calls[2][4] \in 0..65535
                   /\ last.calls[1][4] * 65536 + last.calls[2][4] = v
                   /\ last.calls[2][5] = slave_id["gfr"]
           /\ last.req = 305000 /\ "high" \notin last.fail =>
                 last.calls[1][4] = 0 /\ last.calls[2][4] = 30500

C14_Witness ==
    /\ SetFlowWithHandle /\ last.req = 700000 /\ last.fail = {}
    /\ last.calls = <<Call(last.entry, "write", 2053, 1, slave_id["gfr"]),
                      Call(last.entry, "write", 2054, 4464, slave_id["gfr"])>>
    /\ slave_id["gfr"] = 2 /\ ReturnedSuccessSentinel

\* the call that just returned is a GetFlow whose read returned the raw
\* register value last.req
GetFlowReadValue == Called("GetFlow") /\ last.entry # None /\ last.fn = "value"

\* C15: for every raw register value r in 0..65535 returned by the flow
\* register read, GetFlow returns (success sentinel, signed16(r)/10) where
\* signed16(r) = r for r < 32768 and r - 65536 otherwise; in tenths the
\* decoded value is in -32768..32767 (0xFFFF gives -1 tenth, 300 gives 300
\* tenths, 0 gives 0).
C15_GetFlowDecodesSigned16 ==
    (GetFlowReadValue /\ last.req \in 0..65535) =>
        /\ last.out.kind = "return" /\ last.out.val.t = "pair"
        /\ last.out.val.a = MODBUS_OK
        /\ last.out.val.b = IF last.req < 32768 THEN last.req ELSE last.req - 65536
        /\ last.out.val.b \in -32768..32767
        /\ (last.out.val.b - last.req) % 65536 = 0
        /\ last.req = 65535 => last.out.val.b = -1
        /\ last.req = 300 => last.out.val.b = 300
        /\ last.req = 0 => last.out.val.b = 0

C15_Witness ==
    /\ GetFlowReadValue /\ last.req = 32768
    /\ last.out = Return(PyPair(MODBUS_OK, -32768))
    /\ handle["gfr"] = last.entry

\* the call that just returned is a GetFlow whose read returned a response
\* without a register payload
GetFlowReadNothing ==
    Called("GetFlow") /\ last.entry # None /\ last.fn \in {"noattr", "empty"}

\* C16: when the flow register read returns normally but carries no
\* register payload (no 'registers' attribute or an empty list), GetFlow
\* returns exactly (error sentinel, 0) without raising, and the controller
\* stays Connected with its handle unchanged and not closed.
C16_EmptyResponseKeepsConnection ==
    GetFlowReadNothing =>
        /\ last.out = Return(PyPair(MODBUS_ERROR, 0))
        /\ last.raised = {}
        /\ handle["gfr"] = last.entry /\ IsConnected(Now, "gfr")
        /\ Closes = {}
        /\ last.calls = <<Call(last.entry, "read", MODBUS_REGISTER_FLOW, 1, slave_id["gfr"])>>

C16_Witness ==
    /\ GetFlowReadNothing /\ last.fn = "noattr"
    /\ last.out = Return(PyPair(-1, 0))
    /\ handle["gfr"] = last.entry /\ tr[last.entry].st = "open"
    /\ tr[last.entry].closes = 0

\* the setpoint registers hold the high word of one SetFlow and the low
\* word of a different setpoint, and the two words are the encoding of
\* neither
HalfWritten ==
    /\ RegHigh(regs.high) # RegHigh(regs.low)
    /\ RegLow(regs.high) # RegLow(regs.low)

\* the call that just returned issued a read of the flow register
ReadIssued == \E i \in CallsOf(last.calls, "read") : last.calls[i][3] = MODBUS_REGISTER_FLOW

\* C17: in any sequence of serialized calls on one flow-regulator controller
\* (SetFlow calls whose second write fails and later reconnects included),
\* no GetFlow register read is issued while the device's setpoint registers
\* 2053/2054 hold the high word of one SetFlow and the low word of a
\* different setpoint.
C17_NoReadOfHalfWrittenSetpoint ==
    (Called("GetFlow") /\ ReadIssued) => ~HalfWritten

\* the step is a call on controller o that leaves controller p as it was:
\* its handle, its slave id, its connected state and its transport, on
\* which no call is issued
LeavesAlone(p) ==
    /\ handle'[p] = handle[p]
    /\ slave_id'[p] = slave_id[p]
    /\ IsConnected(Now, p)' = IsConnected(Now, p)
    /\ handle[p] # None =>
          /\ tr'[handle[p]] = tr[handle[p]]
          /\ \A i \in DOMAIN last'.calls : last'.calls[i][1] # handle[p]

\* C18: any operation on one controller, successful or failing (its
\* cleanup-on-error path included), leaves the other controller's handle,
\* slave id and connected/disconnected state unchanged and issues no call
\* on the other controller's transport; only the shared error string may
\* change.
C18_OtherControllerUntouched ==
    [][last'.o \in Ctl => \A p \in Ctl \ {last'.o} : LeavesAlone(p)]_vars

C18_Witness ==
    /\ Called("SetFlow") /\ FunctionRaised /\ "cleanup" \in last.fail
    /\ handle["gfr"] = None /\ Closes # {}
    /\ handle["relay"] # None /\ tr[handle["relay"]] = [st |-> "open", closes |-> 0, hasClose |-> TRUE]
    /\ slave_id["relay"] = 2 /\ slave_id["gfr"] = 1
    /\ Contains(LAST_ERROR, OperationName("gfr", "SetFlow"))

\* the previous call was a guarded operation of a controller that failed
PreviousFailed == prev.o \in Ctl /\ prev.how \in {"failed", "raised"}

\* the call before was a guarded operation on one controller that failed,
\* and the call that just returned is a guarded operation on the other
\* controller that succeeded and does not preserve its return value
SucceededAfterOtherFailed ==
    /\ PreviousFailed
    /\ last.o \in Ctl \ {prev.o} /\ Guarded
    /\ ~last.cfg.preserve_return_value /\ ReturnedSuccessSentinel

\* C19: the error state is one process-wide value: GetLastError() of either
\* controller returns the same LAST_ERROR in every reachable state, and
\* after a failing operation on one controller a succeeding guarded
\* operation (not value-preserving) on the other controller makes the first
\* controller's GetLastError() return the empty string.
C19_ErrorStateIsShared ==
    /\ Called("GetLastError") => last.out = Return(PyStr(LAST_ERROR))
    /\ SucceededAfterOtherFailed => GetLastError(Now) = << >>
    /\ (Called("GetLastError") /\ prev.o \in Ctl \ {last.o} /\ prev.how = "ok"
           /\ prev.op \in {"TurnOn", "TurnOff", "SetFlow", "SetGas"}) =>
          last.out = Return(PyStr(<< >>))

C19_Witness ==
    /\ prev = [o |-> "relay", op |-> "TurnOff", how |-> "raised"]
    /\ Called("SetGas") /\ ReturnedSuccessSentinel
    /\ LAST_ERROR = << >> /\ handle["relay"] = None

\* C20: in every state reachable between public calls, for each controller
\* the handle field is non-null if and only if it refers to a transport
\* whose connect succeeded and which has not been closed; there is never a
\* non-null handle that is unconnected or already closed.
C20_HandleFullyPresentOrAbsent ==
    last = Idle =>
        \A o \in Ctl : handle[o] # None => tr[handle[o]].st = "open"

\* C21: over any sequence of operations (repeated TurnOff calls and a close
\* that raises inside TurnOff included), close is invoked at most once on
\* any given transport object: every close is followed by nulling the
\* handle, so no later operation closes or uses the same transport again.
C21_CloseAtMostOncePerTransport ==
    /\ \A i \in 1..MaxTransports : tr[i].closes <= 1
    /\ \A o \in Ctl : handle[o] # None => tr[handle[o]].closes = 0

\* the call that just returned is a guarded test operation whose wrapped
\* function ran and returned the guard's own error sentinel
FunctionReturnedErrorSentinel ==
    last.op = "test_operation" /\ last.invoked # {} /\ last.fn = "sentinel"

\* C22: for any configured sentinels, when the wrapped function returns
\* normally a value equal to the guard's error sentinel (return_on_error),
\* the guard returns that error sentinel, leaves the error state exactly as
\* the operation set it, and does not close or null the handle; with and
\* without preserve_return_value.
C22_ErrorSentinelPassesThrough ==
    FunctionReturnedErrorSentinel =>
        /\ ReturnedErrorSentinel
        /\ LAST_ERROR = <<"Internal error">>
        /\ handle["obj"] = last.entry
        /\ Closes = {}

\* the value the wrapped test function of the call returned, PyNone if it
\* raised
FunctionValue == test_operation(last.cfg, Now, last.fn).out.val

\* the call that just returned is a guarded test operation whose wrapped
\* function ran and returned normally a value that is not the guard's
\* error sentinel
FunctionReturnedOther ==
    /\ last.op = "test_operation" /\ last.invoked # {} /\ last.fn # "raise"
    /\ FunctionValue # PyInt(last.cfg.return_on_error)

\* C23: when the wrapped function returns normally a value that is not the
\* error sentinel: with preserve_return_value the guard returns exactly
\* that value (e.g. a tuple) unchanged; without it the guard clears the
\* error state and returns the configured success sentinel whatever the
\* function returned.
C23_SuccessValueOrSentinel ==
    FunctionReturnedOther =>
        IF last.cfg.preserve_return_value
        THEN last.out = Return(FunctionValue)
        ELSE ReturnedSuccessSentinel /\ LAST_ERROR = << >>

\* the register reads and writes of the call that just returned
RegisterCalls == {i \in DOMAIN last.calls : last.calls[i][2] \in {"read", "write"}}

\* every register call of the call that just returned carries the slave id
\* its controller stores, which for a TurnOn is the id passed to it
CallsCarryStoredSlave ==
    (Guarded /\ last.o \in Ctl) =>
        \A i \in RegisterCalls :
           /\ last.calls[i][5] = slave_id[last.o]
           /\ last.op = "TurnOn" => last.calls[i][5] = last.req

\* after a TurnOn, a controller that has a handle stores the id passed
TurnOnStoresSlave ==
    (Called("TurnOn") /\ handle[last.o] # None) => slave_id[last.o] = last.req

\* a stored slave id changes only in a TurnOn of that controller
OnlyTurnOnChangesSlave ==
    \A o \in Ctl : slave_id'[o] # slave_id[o] =>
        last'.op = "TurnOn" /\ last'.o = o /\ slave_id'[o] = last'.req

\* C24: every register read or write a controller issues (SetFlow's two
\* writes, GetFlow's read, SetGas's write, relay TurnOn/TurnOff writes)
\* carries the slave id passed to that controller's most recent TurnOn,
\* never the default or another controller's id.
C24_CallsCarryTurnOnSlave ==
    /\ [](CallsCarryStoredSlave /\ TurnOnStoresSlave)
    /\ [][OnlyTurnOnChangesSlave]_vars

C24_Witness ==
    /\ Called("SetGas") /\ last.fail = {}
    /\ last.calls = <<Call(last.entry, "write", MODBUS_REGISTER_GAS, last.req, 2)>>
    /\ slave_id = [gfr |-> 2, relay |-> 1, obj |-> 1]
    /\ handle["relay"] # None

\* the two predicates are complementary and read the handle only, and a
\* call of either returns what the predicate is
PredicatesOnNullity ==
    /\ \A o \in Ctl :
          /\ IsConnected(Now, o) <=> handle[o] # None
          /\ IsDisconnected(Now, o) <=> ~IsConnected(Now, o)
    /\ Called("IsConnected") => last.out = Return(PyBool(handle[last.o] # None))
    /\ Called("IsDisconnected") => last.out = Return(PyBool(handle[last.o] = None))

\* a call of either predicate changes nothing
PredicatesArePure ==
    last'.op \in {"IsConnected", "IsDisconnected"} =>
        UNCHANGED <<handle, slave_id, tr, LAST_ERROR>>

\* C25: IsConnected() and IsDisconnected() are pure and complementary in
\* every reachable state: IsConnected() is true exactly when the handle is
\* non-null, IsDisconnected() is its negation, and calling either changes
\* neither the handle, the slave id nor the error state.
C25_PredicatesPureAndComplementary ==
    /\ []PredicatesOnNullity
    /\ [][PredicatesArePure]_vars

C25_Witness ==
    /\ Called("IsDisconnected") /\ last.o = "relay"
    /\ last.out = Return(PyBool(FALSE))
    /\ handle["relay"] # None /\ tr[handle["relay"]].st = "closed"
    /\ LAST_ERROR # << >>

\* the call that just returned is set_last_error with an argument that is
\* not a string
SetWithNonString == last.op = "set_last_error" /\ last.fn \in {"int", "None"}

\* set_last_error with a non-string raises ValueError
NonStringRaises ==
    SetWithNonString => last.out.kind = "raise" /\ last.out.type = "ValueError"

\* set_last_error with a non-string leaves the stored error as it was
NonStringKeepsError ==
    (last'.op = "set_last_error" /\ last'.fn \in {"int", "None"}) =>
        LAST_ERROR' = LAST_ERROR

\* get_last_error returns the stored string
GetReturnsString ==
    last.op = "get_last_error" =>
        last.out.kind = "return" /\ last.out.val.t = "str" /\ last.out.val.s = LAST_ERROR

\* C26: the error state is always a string, initially empty:
\* set_last_error called with a non-string (an integer or None) raises
\* ValueError and leaves the stored error unchanged, so no sequence of
\* set/reset/guarded operations makes get_last_error() return a non-string
\* or null.
C26_ErrorStateStaysString ==
    /\ LAST_ERROR = << >>
    /\ [](NonStringRaises /\ GetReturnsString)
    /\ [][NonStringKeepsError]_vars

C26_Witness ==
    /\ SetWithNonString /\ last.fn = "None"
    /\ last.out = Raise("ValueError", <<"Error must be a string">>)
    /\ LAST_ERROR = <<"Test error message">>

\* a step that calls set_last_error with a string stores that string
SetStores ==
    (last'.op = "set_last_error" /\ last'.fn \in {"empty", "text"}) =>
        /\ LAST_ERROR' = ErrorArgument(last'.fn).s
        /\ last'.out = Return(PyNone)

\* a step that calls reset_last_error leaves the empty string, whatever was
\* stored, the empty string of an earlier reset included
ResetEmpties == last'.op = "reset_last_error" => LAST_ERROR' = << >>

\* a step that calls get_last_error returns what is stored and keeps it
GetReturnsStored ==
    last'.op = "get_last_error" =>
        /\ last'.out = Return(PyStr(LAST_ERROR))
        /\ LAST_ERROR' = LAST_ERROR

\* C27: get_last_error() returns the argument of the most recent
\* set_last_error, or the empty string if reset_last_error was called more
\* recently; reset_last_error is idempotent (any number of consecutive
\* resets leaves the empty string).
C27_SetGetReset ==
    [][SetStores /\ ResetEmpties /\ GetReturnsStored]_vars

C27_Witness ==
    /\ last.op = "get_last_error"
    /\ last.out = Return(PyStr(<<"Test error message">>))
    /\ LAST_ERROR = <<"Test error message">>

\* a thread past its device check that still has a register call to make
PastCheck(t) == th[t].pc \in {"write_high", "write_low"}

\* the handle is the open transport the thread's guard read at entry
HoldsCheckedHandle(t) ==
    /\ th[t].dev # None
    /\ handle["gfr"] = th[t].dev
    /\ tr[th[t].dev].st # "closed"

\* C28: with two unsynchronized threads on one controller a TurnOff or a
\* cleanup of one thread can null or close the handle between the other
\* thread's device check and its register call, which then runs against a
\* null or closed handle (C28_Witness is such a state); a thread whose call
\* overlaps no other call finds, at every register call, the open handle
\* its guard checked.
C28_SerializedCallKeepsCheckedHandle ==
    \A t \in Threads :
       th[t].alone =>
          /\ PastCheck(t) => HoldsCheckedHandle(t)
          /\ th[t].ran \in {"", "ok"}

C28_Witness ==
    \E t \in Threads :
       /\ th[t].op = "SetFlow"
       /\ th[t].ran = "null"
       /\ ~th[t].alone
       /\ th[Other(t)].op = "TurnOff"

\* the TurnOn call that is followed has returned one of the two sentinels
ReturnedSentinel ==
    loop.out \in {Return(PyInt(MODBUS_OK)), Return(PyInt(MODBUS_ERROR))}

\* the loop made no more than connect_attempts connect() calls
LoopBounded ==
    /\ loop.connects <= connect_attempts
    /\ loop.pc = "connect" => loop.attempt <= connect_attempts + 1

\* C29: every TurnOn call returns the success sentinel or the error
\* sentinel whatever each connect() does; the loop makes at most 3 passes
\* and a call inside the loop always comes to its return.
C29_TurnOnReturns ==
    /\ [](LoopBounded /\ (loop.pc = "returned" => ReturnedSentinel))
    /\ (loop.pc = "connect") ~> (loop.pc = "returned")

C29_Witness ==
    /\ loop.pc = "returned"
    /\ loop.connects = connect_attempts
    /\ loop.message = ExceptionText(2)
    /\ loop.out = Return(PyInt(MODBUS_ERROR))

\* the call that just returned is a guarded operation declared with
\* skip_device_check
SkipsDeviceCheck == Guarded /\ last.cfg.skip_device_check

\* its handle was null at entry and its wrapped function returned normally
\* without reporting an error (None, MODBUS_OK or a success tuple)
SucceededOnNullHandle ==
    /\ SkipsDeviceCheck
    /\ last.entry \in {None, Missing}
    /\ last.fn \in {"none", "ok", "pair"}

C31_DelaysOnlyBetweenAttempts ==
    TurnOnConstructed =>
        /\ FirstOk(last.script) # 0 => last.sleeps = FirstOk(last.script) - 1
        /\ FirstOk(last.script) = 0 => last.sleeps = connect_attempts - 1

\* the call that just returned is a guarded operation declared with
\* cleanup_on_error disabled whose wrapped function raised
RaisedWithoutCleanup == Guarded /\ ~last.cfg.cleanup_on_error /\ FunctionRaised

\* C32: a guarded operation declared with cleanup_on_error disabled whose
\* wrapped function raises: the guard returns the error sentinel and records
\* '<name> failed: <exception text>', leaves the handle field as it was at
\* entry and never calls close.
C32_RaiseWithoutCleanupKeepsHandle ==
    RaisedWithoutCleanup =>
        /\ ReturnedErrorSentinel
        /\ \E p \in last.raised :
              LAST_ERROR = <<last.cfg.operation_name, "failed:">> \o p[2]
        /\ handle[last.o] = last.entry
        /\ Closes = {}

C32_Witness ==
    /\ RaisedWithoutCleanup
    /\ last.op = "test_operation" /\ last.fn = "raise"
    /\ last.entry = TestDev /\ handle["obj"] = TestDev
    /\ tr[TestDev].st = "open" /\ tr[TestDev].closes = 0
    /\ ReturnedValue(PyInt(-42))
    /\ LAST_ERROR = <<"Test Operation", "failed:", "Test exception">>

\* the call that just returned is a flow-regulator TurnOff that found a
\* handle
GfrTurnOffWithHandle == Called("TurnOff") /\ last.o = "gfr" /\ last.entry # None

\* C33: flow-regulator TurnOff reports the outcome of closing: the success
\* sentinel with an empty error state only when the transport's close
\* completed normally, the error sentinel with a non-empty error state when
\* close raised.
C33_TurnOffReportsClose ==
    GfrTurnOffWithHandle =>
        IF "close" \in last.fail
        THEN ReturnedErrorSentinel /\ LAST_ERROR # << >>
        ELSE ReturnedSuccessSentinel /\ LAST_ERROR = << >>

\* the transports a controller connected and never called close on
OpenTransports == {i \in 1..MaxTransports : tr[i].st = "open" /\ tr[i].closes = 0}

\* C34: each controller holds at most one open transport: every transport
\* that was connected and has not been closed is the current handle of a
\* controller (TurnOn while Connected included), and a failing TurnOn closes
\* no transport other than the one it created.
C34_OneOpenTransportPerController ==
    /\ \A i \in OpenTransports : \E o \in Ctl : handle[o] = i
    /\ (Called("TurnOn") /\ ReturnedErrorSentinel) =>
          \A c \in Closes : last.calls[c][1] = last.created

\* C35: for every scaled setpoint value in the signed 32-bit range, negative
\* values included, both words SetFlow passes to the transport are register
\* values in 0..65535, so that a SetFlow whose transport does not fail
\* succeeds and leaves the controller connected.
C35_WordsAreRegisterValues ==
    (SetFlowWithHandle /\ InSigned32(Scaled(last.req))) =>
        /\ \A w \in Writes : last.calls[w][4] \in 0..65535
        /\ last.fail = {} => ReturnedSuccessSentinel /\ handle["gfr"] = last.entry

\* C36: the setpoint split is lossless: for every v in the signed 32-bit
\* range, high = v >> 16 and low = v & 0xFFFF give high * 65536 + low = v
\* with low in 0..65535, and two distinct values give distinct (high, low)
\* pairs.
C36_SplitIsLossless ==
    (split.done /\ InSigned32(split.v) /\ InSigned32(split.w)) =>
        /\ split.hv[1] * 65536 + split.hv[2] = split.v
        /\ split.hv[2] \in 0..65535
        /\ split.v # split.w => split.hv # split.hw

C36_Witness ==
    /\ split.done
    /\ split.v = -1 /\ split.hv = <<-1, 65535>>
    /\ split.w = 65535 /\ split.hw = <<0, 65535>>

\* no TurnOn call is inside _init
OutsideInit == loop.pc \in {"idle", "returned"}

\* C37: connection establishment restores the process's stderr stream on
\* every exit path: after _init returned or raised (success on the first or
\* a later attempt, connect raising, all attempts failing, the transport
\* constructor raising) sys.stderr is the stream it was before the call.
C37_StderrRestored ==
    OutsideInit => stderr = Console /\ stderr = loop.old_stderr

C37_Witness ==
    /\ loop.pc = "returned"
    /\ loop.connects = 2
    /\ loop.message = ExceptionText(1)
    /\ loop.out = Return(PyInt(MODBUS_OK))
    /\ stderr = Console

\* C38: the two guard implementations are observationally equivalent: for
\* the same initial handle, cleanup flag and wrapped-function outcome both
\* return the same sentinel, leave the handle field in the same null or
\* non-null state, call close the same number of times and agree on
\* whether the error state is empty.
C38_GuardsEquivalent ==
    both.ran =>
        /\ both.new.out = both.old.out
        /\ both.new.null = both.old.null
        /\ both.new.closes = both.old.closes
        /\ both.new.empty = both.old.empty

====
